---- MODULE Spec2Model ----
(***************************************************************************)
(* A model of the OpenAPI 3.1 package of genelet/oas (package openapi31):  *)
(* the JSON codec of its nodes (extension capture, reference-shaped nodes, *)
(* boolean schemas) and the Validate walk.                                 *)
(*                                                                         *)
(* JSON texts are modelled as value trees (what encoding/json's scanner    *)
(* hands to the decoder); Go values are modelled type-directed:            *)
(*   string -> string, bool -> BOOLEAN, int/float64 -> Int,                *)
(*   pointer -> <<>> (nil) or <<v>>, slice -> sequence, map -> function,   *)
(*   struct -> record keyed by Go field name, any -> canonical JSON value. *)
(***************************************************************************)
EXTENDS Integers, Sequences, FiniteSets, TLC

VARIABLES
    node,    \* the instance under test: its type name and its value
    wire,    \* the text MarshalJSON produced for it last (JNull: none yet)
    src,     \* the text of the last decode call on it (JNull: none)
    last,    \* the last call on it: operation, error, fresh destination, count
    result,  \* what the last query returned: the Errors of Validate's
             \* ValidationResult, or the name asked of Contains and its answer
    planted, \* the nodes of the document a violation was written into
    calls    \* the calls in flight of the callers that share the document:
             \* for each caller the operation, its position, and what it has
             \* accumulated or returned (<<>>: no caller has started)

vars == <<node, wire, src, last, result, planted, calls>>

(***************************************************************************)
(* JSON values.  An object carries the order its keys are written in:      *)
(* "src" (as the input text has them), "struct" (Go struct field order) or *)
(* "sorted" (encoding/json sorts map keys), so equality of two encoded     *)
(* values is equality of their bytes.                                      *)
(***************************************************************************)
JStr(s) == [t |-> "string", s |-> s]
JNum(n) == [t |-> "number", n |-> n]
JBool(b) == [t |-> "bool", b |-> b]
JNull == [t |-> "null"]
JArr(a) == [t |-> "array", a |-> a]
JObj(o, ord) == [t |-> "object", o |-> o, ord |-> ord]

EmptyMap == <<>>

\* Number literals of the bounded inputs, and what strconv makes of them.
NumLits == {"1", "5", "10", "1.0", "1e400"}

\* strconv.ParseFloat(s, 64): "1e400" is out of range (an error).
ParseFloatOk(lit) == lit # "1e400"
ParseFloat(lit) ==
    CASE lit = "1" -> 1
      [] lit = "1.0" -> 1
      [] lit = "5" -> 5
      [] lit = "10" -> 10
      [] OTHER -> 0

\* strconv.ParseInt(s, 10, 64): a fraction or an exponent is an error.
ParseIntOk(lit) == lit \in {"1", "5", "10"}

\* strconv's shortest formatting of the modelled numbers.
FormatNumber(n) ==
    CASE n = 1 -> "1"
      [] n = 5 -> "5"
      [] n = 10 -> "10"
      [] OTHER -> "0"

(***************************************************************************)
(* json.Unmarshal(value, &v) with v of type any: a generic value tree of   *)
(* Go values (string, float64, bool, nil, []any, map[string]any), each     *)
(* tagged with its dynamic type.  A number literal out of float64's range  *)
(* is an UnmarshalTypeError.                                               *)
(***************************************************************************)
GoNil == [g |-> "nil"]

RECURSIVE decodeAnyOk(_)
decodeAnyOk(j) ==
    CASE j.t = "number" -> ParseFloatOk(j.n)
      [] j.t = "array" -> \A i \in DOMAIN j.a : decodeAnyOk(j.a[i])
      [] j.t = "object" -> \A k \in DOMAIN j.o : decodeAnyOk(j.o[k])
      [] OTHER -> TRUE

RECURSIVE decodeAny(_)
decodeAny(j) ==
    CASE j.t = "number" -> [g |-> "float64", v |-> ParseFloat(j.n)]
      [] j.t = "string" -> [g |-> "string", v |-> j.s]
      [] j.t = "bool" -> [g |-> "bool", v |-> j.b]
      [] j.t = "array" -> [g |-> "slice", v |-> [i \in DOMAIN j.a |-> decodeAny(j.a[i])]]
      [] j.t = "object" -> [g |-> "map", v |-> [k \in DOMAIN j.o |-> decodeAny(j.o[k])]]
      [] OTHER -> GoNil

\* json.Marshal of a generic value tree: maps are written with sorted keys.
RECURSIVE encodeAny(_)
encodeAny(x) ==
    CASE x.g = "float64" -> JNum(FormatNumber(x.v))
      [] x.g = "string" -> JStr(x.v)
      [] x.g = "bool" -> JBool(x.v)
      [] x.g = "slice" -> JArr([i \in DOMAIN x.v |-> encodeAny(x.v[i])])
      [] x.g = "map" -> JObj([k \in DOMAIN x.v |-> encodeAny(x.v[k])], "sorted")
      [] OTHER -> JNull

(***************************************************************************)
(* Go types of the model.  A struct type is named; StructFields gives its  *)
(* fields in declaration order: Go name, JSON key ("-" for a field the     *)
(* codec does not see), type and omitempty.  A custom type is one with its *)
(* own UnmarshalJSON/MarshalJSON; its value has the fields of its struct.  *)
(***************************************************************************)
TString == [k |-> "string"]
TBool == [k |-> "bool"]
TInt == [k |-> "int"]
TFloat == [k |-> "float64"]
TAny == [k |-> "interface"]
TPtr(e) == [k |-> "ptr", e |-> e]
TSlice(e) == [k |-> "slice", e |-> e]
TMap(e) == [k |-> "map", e |-> e]
TStruct(n) == [k |-> "struct", n |-> n]
TCustom(n) == [k |-> "custom", n |-> n]

Fld(f, key, T, oe) == [f |-> f, key |-> key, T |-> T, oe |-> oe]

\* The three fields of every <kind>RefOnly struct but exampleRefOnly.
refOnlyFields ==
    << Fld("Ref", "$ref", TString, FALSE),
       Fld("Summary", "summary", TString, TRUE),
       Fld("Description", "description", TString, TRUE) >>

exampleRefOnly ==
    << Fld("Ref", "$ref", TString, FALSE),
       Fld("Summary", "summary", TString, TRUE) >>

\* The head shared by the referenceable structs: the unexported marker,
\* then $ref, summary, description.
refHead ==
    << Fld("isReference", "-", TBool, FALSE),
       Fld("Ref", "$ref", TString, TRUE),
       Fld("Summary", "summary", TString, TRUE),
       Fld("Description", "description", TString, TRUE) >>

extTail == << Fld("Extensions", "-", TMap(TAny), FALSE) >>

\* The modelled fields of each struct (a bounded subset of the declared
\* ones; every field the claims read is here).
parameterAlias ==
    refHead \o
    << Fld("Name", "name", TString, TRUE),
       Fld("In", "in", TString, TRUE),
       Fld("Required", "required", TBool, TRUE),
       Fld("Style", "style", TString, TRUE),
       Fld("Schema", "schema", TPtr(TCustom("Schema")), TRUE),
       Fld("Content", "content", TMap(TPtr(TCustom("MediaType"))), TRUE),
       Fld("Example", "example", TAny, TRUE),
       Fld("Examples", "examples", TMap(TPtr(TCustom("Example"))), TRUE) >> \o extTail

headerAlias ==
    refHead \o
    << Fld("Required", "required", TBool, TRUE),
       Fld("Style", "style", TString, TRUE),
       Fld("Schema", "schema", TPtr(TCustom("Schema")), TRUE),
       Fld("Content", "content", TMap(TPtr(TCustom("MediaType"))), TRUE),
       Fld("Example", "example", TAny, TRUE),
       Fld("Examples", "examples", TMap(TPtr(TCustom("Example"))), TRUE) >> \o extTail

responseAlias ==
    refHead \o
    << Fld("Headers", "headers", TMap(TPtr(TCustom("Header"))), TRUE),
       Fld("Content", "content", TMap(TPtr(TCustom("MediaType"))), TRUE),
       Fld("Links", "links", TMap(TPtr(TCustom("Link"))), TRUE) >> \o extTail

requestBodyAlias ==
    refHead \o
    << Fld("Content", "content", TMap(TPtr(TCustom("MediaType"))), TRUE),
       Fld("Required", "required", TBool, TRUE) >> \o extTail

exampleAlias ==
    refHead \o
    << Fld("Value", "value", TAny, TRUE),
       Fld("ExternalValue", "externalValue", TString, TRUE) >> \o extTail

linkAlias ==
    refHead \o
    << Fld("OperationRef", "operationRef", TString, TRUE),
       Fld("OperationId", "operationId", TString, TRUE) >> \o extTail

securitySchemeAlias ==
    refHead \o
    << Fld("Type", "type", TString, TRUE),
       Fld("Name", "name", TString, TRUE),
       Fld("In", "in", TString, TRUE),
       Fld("Scheme", "scheme", TString, TRUE),
       Fld("Flows", "flows", TPtr(TCustom("OAuthFlows")), TRUE),
       Fld("OpenIdConnectUrl", "openIdConnectUrl", TString, TRUE) >> \o extTail

oauthFlowsAlias ==
    << Fld("Implicit", "implicit", TPtr(TCustom("OAuthFlow")), TRUE),
       Fld("Password", "password", TPtr(TCustom("OAuthFlow")), TRUE),
       Fld("ClientCredentials", "clientCredentials", TPtr(TCustom("OAuthFlow")), TRUE),
       Fld("AuthorizationCode", "authorizationCode", TPtr(TCustom("OAuthFlow")), TRUE) >>
    \o extTail

\* Scopes is a map whose nil and empty values differ (nil is written as
\* null, and read by validate): it is held as a pointer to the map.
oauthFlowAlias ==
    << Fld("AuthorizationUrl", "authorizationUrl", TString, TRUE),
       Fld("TokenUrl", "tokenUrl", TString, TRUE),
       Fld("Scopes", "scopes", TPtr(TMap(TString)), FALSE) >> \o extTail

\* Callback: every field is tagged json:"-"; its codec is hand-written.
Callback ==
    << Fld("isReference", "-", TBool, FALSE),
       Fld("Ref", "-", TString, FALSE),
       Fld("Summary", "-", TString, FALSE),
       Fld("Description", "-", TString, FALSE),
       Fld("Paths", "-", TMap(TPtr(TCustom("PathItem"))), FALSE) >> \o extTail

mediaTypeAlias ==
    << Fld("Schema", "schema", TPtr(TCustom("Schema")), TRUE),
       Fld("Example", "example", TAny, TRUE),
       Fld("Examples", "examples", TMap(TPtr(TCustom("Example"))), TRUE),
       Fld("Encoding", "encoding", TMap(TPtr(TCustom("Encoding"))), TRUE) >> \o extTail

encodingAlias ==
    << Fld("ContentType", "contentType", TString, TRUE),
       Fld("Headers", "headers", TMap(TPtr(TCustom("Header"))), TRUE),
       Fld("Style", "style", TString, TRUE) >> \o extTail

pathItemAlias ==
    << Fld("Ref", "$ref", TString, TRUE),
       Fld("Summary", "summary", TString, TRUE),
       Fld("Description", "description", TString, TRUE),
       Fld("Parameters", "parameters", TSlice(TPtr(TCustom("Parameter"))), TRUE),
       Fld("Get", "get", TPtr(TCustom("Operation")), TRUE),
       Fld("Put", "put", TPtr(TCustom("Operation")), TRUE),
       Fld("Post", "post", TPtr(TCustom("Operation")), TRUE),
       Fld("Delete", "delete", TPtr(TCustom("Operation")), TRUE),
       Fld("Options", "options", TPtr(TCustom("Operation")), TRUE),
       Fld("Head", "head", TPtr(TCustom("Operation")), TRUE),
       Fld("Patch", "patch", TPtr(TCustom("Operation")), TRUE),
       Fld("Trace", "trace", TPtr(TCustom("Operation")), TRUE) >> \o extTail

schemaPtr == TPtr(TCustom("Schema"))

schemaAlias ==
    << Fld("boolValue", "-", TPtr(TBool), FALSE),
       Fld("Ref", "$ref", TString, TRUE),
       Fld("AllOf", "allOf", TSlice(schemaPtr), TRUE),
       Fld("AnyOf", "anyOf", TSlice(schemaPtr), TRUE),
       Fld("OneOf", "oneOf", TSlice(schemaPtr), TRUE),
       Fld("Not", "not", schemaPtr, TRUE),
       Fld("If", "if", schemaPtr, TRUE),
       Fld("Then", "then", schemaPtr, TRUE),
       Fld("Else", "else", schemaPtr, TRUE),
       Fld("DependentSchemas", "dependentSchemas", TMap(schemaPtr), TRUE),
       Fld("PrefixItems", "prefixItems", TSlice(schemaPtr), TRUE),
       Fld("Items", "items", schemaPtr, TRUE),
       Fld("Contains", "contains", schemaPtr, TRUE),
       Fld("Properties", "properties", TMap(schemaPtr), TRUE),
       Fld("PatternProperties", "patternProperties", TMap(schemaPtr), TRUE),
       Fld("AdditionalProperties", "additionalProperties", schemaPtr, TRUE),
       Fld("PropertyNames", "propertyNames", schemaPtr, TRUE),
       Fld("UnevaluatedItems", "unevaluatedItems", schemaPtr, TRUE),
       Fld("UnevaluatedProperties", "unevaluatedProperties", schemaPtr, TRUE),
       Fld("Type", "type", TPtr(TCustom("StringOrStringArray")), TRUE),
       Fld("Maximum", "maximum", TPtr(TFloat), TRUE),
       Fld("ExclusiveMaximum", "exclusiveMaximum", TPtr(TFloat), TRUE),
       Fld("Minimum", "minimum", TPtr(TFloat), TRUE),
       Fld("ExclusiveMinimum", "exclusiveMinimum", TPtr(TFloat), TRUE),
       Fld("MaxLength", "maxLength", TPtr(TInt), TRUE),
       Fld("MinLength", "minLength", TPtr(TInt), TRUE),
       Fld("Pattern", "pattern", TString, TRUE),
       Fld("MaxItems", "maxItems", TPtr(TInt), TRUE),
       Fld("MinItems", "minItems", TPtr(TInt), TRUE),
       Fld("MaxContains", "maxContains", TPtr(TInt), TRUE),
       Fld("MinContains", "minContains", TPtr(TInt), TRUE),
       Fld("MaxProperties", "maxProperties", TPtr(TInt), TRUE),
       Fld("MinProperties", "minProperties", TPtr(TInt), TRUE),
       Fld("Required", "required", TSlice(TString), TRUE),
       Fld("Title", "title", TString, TRUE) >> \o extTail

\* StringOrStringArray has no tags; its codec is hand-written.
StringOrStringArray ==
    << Fld("String", "-", TString, FALSE),
       Fld("Array", "-", TSlice(TString), FALSE) >>

operationAlias ==
    << Fld("Summary", "summary", TString, TRUE),
       Fld("OperationID", "operationId", TString, TRUE),
       Fld("Parameters", "parameters", TSlice(TPtr(TCustom("Parameter"))), TRUE),
       Fld("RequestBody", "requestBody", TPtr(TCustom("RequestBody")), TRUE),
       Fld("Responses", "responses", TPtr(TCustom("Responses")), TRUE),
       Fld("Callbacks", "callbacks", TMap(TPtr(TCustom("Callback"))), TRUE) >> \o extTail

Responses ==
    << Fld("Default", "-", TPtr(TCustom("Response")), FALSE),
       Fld("StatusCode", "-", TMap(TPtr(TCustom("Response"))), FALSE) >> \o extTail

Paths ==
    << Fld("Paths", "-", TMap(TPtr(TCustom("PathItem"))), FALSE) >> \o extTail

licenseAlias ==
    << Fld("Name", "name", TString, FALSE),
       Fld("Identifier", "identifier", TString, TRUE),
       Fld("URL", "url", TString, TRUE) >> \o extTail

infoAlias ==
    << Fld("Title", "title", TString, FALSE),
       Fld("Summary", "summary", TString, TRUE),
       Fld("License", "license", TPtr(TCustom("License")), TRUE),
       Fld("Version", "version", TString, FALSE) >> \o extTail

serverAlias ==
    << Fld("URL", "url", TString, FALSE),
       Fld("Description", "description", TString, TRUE),
       Fld("Variables", "variables", TMap(TPtr(TCustom("ServerVariable"))), TRUE) >> \o extTail

serverVariableAlias ==
    << Fld("Enum", "enum", TSlice(TString), TRUE),
       Fld("Default", "default", TString, FALSE),
       Fld("Description", "description", TString, TRUE) >> \o extTail

tagAlias ==
    << Fld("Name", "name", TString, FALSE),
       Fld("Description", "description", TString, TRUE) >> \o extTail

componentsAlias ==
    << Fld("Schemas", "schemas", TMap(schemaPtr), TRUE),
       Fld("Responses", "responses", TMap(TPtr(TCustom("Response"))), TRUE),
       Fld("Parameters", "parameters", TMap(TPtr(TCustom("Parameter"))), TRUE),
       Fld("Examples", "examples", TMap(TPtr(TCustom("Example"))), TRUE),
       Fld("RequestBodies", "requestBodies", TMap(TPtr(TCustom("RequestBody"))), TRUE),
       Fld("Headers", "headers", TMap(TPtr(TCustom("Header"))), TRUE),
       Fld("SecuritySchemes", "securitySchemes", TMap(TPtr(TCustom("SecurityScheme"))), TRUE),
       Fld("Links", "links", TMap(TPtr(TCustom("Link"))), TRUE),
       Fld("Callbacks", "callbacks", TMap(TPtr(TCustom("Callback"))), TRUE),
       Fld("PathItems", "pathItems", TMap(TPtr(TCustom("PathItem"))), TRUE) >> \o extTail

openapiAlias ==
    << Fld("OpenAPI", "openapi", TString, FALSE),
       Fld("Info", "info", TPtr(TCustom("Info")), FALSE),
       Fld("Servers", "servers", TSlice(TPtr(TCustom("Server"))), TRUE),
       Fld("Paths", "paths", TPtr(TCustom("Paths")), TRUE),
       Fld("Webhooks", "webhooks", TMap(TPtr(TCustom("PathItem"))), TRUE),
       Fld("Components", "components", TPtr(TCustom("Components")), TRUE),
       Fld("Tags", "tags", TSlice(TPtr(TCustom("Tag"))), TRUE) >> \o extTail

\* The struct behind each named type (for a custom type, the struct its
\* alias type shares with it).
StructFields(n) ==
    CASE n = "Parameter" -> parameterAlias
      [] n = "Header" -> headerAlias
      [] n = "Response" -> responseAlias
      [] n = "RequestBody" -> requestBodyAlias
      [] n = "Example" -> exampleAlias
      [] n = "Link" -> linkAlias
      [] n = "SecurityScheme" -> securitySchemeAlias
      [] n = "OAuthFlows" -> oauthFlowsAlias
      [] n = "OAuthFlow" -> oauthFlowAlias
      [] n = "Callback" -> Callback
      [] n = "MediaType" -> mediaTypeAlias
      [] n = "Encoding" -> encodingAlias
      [] n = "PathItem" -> pathItemAlias
      [] n = "Schema" -> schemaAlias
      [] n = "StringOrStringArray" -> StringOrStringArray
      [] n = "Operation" -> operationAlias
      [] n = "Responses" -> Responses
      [] n = "Paths" -> Paths
      [] n = "License" -> licenseAlias
      [] n = "Info" -> infoAlias
      [] n = "Server" -> serverAlias
      [] n = "ServerVariable" -> serverVariableAlias
      [] n = "Tag" -> tagAlias
      [] n = "Components" -> componentsAlias
      [] n = "OpenAPI" -> openapiAlias
      [] n = "refOnly" -> refOnlyFields
      [] n = "exampleRefOnly" -> exampleRefOnly

\* The known-field lists the source declares next to each type.
parameterKnownFields ==
    {"$ref", "summary", "description", "name", "in", "required", "deprecated",
     "allowEmptyValue", "style", "explode", "allowReserved", "schema",
     "content", "example", "examples"}

headerKnownFields ==
    {"$ref", "summary", "description", "required", "deprecated", "style",
     "explode", "schema", "content", "example", "examples"}

responseKnownFields ==
    {"$ref", "summary", "description", "headers", "content", "links"}

requestBodyKnownFields ==
    {"$ref", "summary", "description", "content", "required"}

exampleKnownFields ==
    {"$ref", "summary", "description", "value", "externalValue"}

linkKnownFields ==
    {"$ref", "summary", "description", "operationRef", "operationId",
     "parameters", "requestBody", "server"}

securitySchemeKnownFields ==
    {"$ref", "summary", "description", "type", "name", "in", "scheme",
     "bearerFormat", "flows", "openIdConnectUrl"}

oauthFlowsKnownFields ==
    {"implicit", "password", "clientCredentials", "authorizationCode"}

oauthFlowKnownFields ==
    {"authorizationUrl", "tokenUrl", "refreshUrl", "scopes"}

mediaTypeKnownFields ==
    {"schema", "example", "examples", "encoding"}

encodingKnownFields ==
    {"contentType", "headers", "style", "explode", "allowReserved"}

pathItemKnownFields ==
    {"$ref", "summary", "description", "servers", "parameters",
     "get", "put", "post", "delete", "options", "head", "patch", "trace"}

schemaKnownFields ==
    {"$id", "$schema", "$ref", "$anchor", "$dynamicRef", "$dynamicAnchor",
     "$defs", "$comment", "$vocabulary",
     "allOf", "anyOf", "oneOf", "not", "if", "then", "else", "dependentSchemas",
     "prefixItems", "items", "contains", "properties", "patternProperties",
     "additionalProperties", "propertyNames", "unevaluatedItems",
     "unevaluatedProperties",
     "type", "enum", "const", "multipleOf", "maximum", "exclusiveMaximum",
     "minimum", "exclusiveMinimum",
     "maxLength", "minLength", "pattern", "maxItems", "minItems", "uniqueItems",
     "maxContains", "minContains",
     "maxProperties", "minProperties", "required", "dependentRequired", "format",
     "contentEncoding", "contentMediaType", "contentSchema",
     "title", "description", "default", "deprecated", "readOnly", "writeOnly",
     "examples", "discriminator", "xml", "externalDocs", "example"}

operationKnownFields ==
    {"tags", "summary", "description", "externalDocs", "operationId",
     "parameters", "requestBody", "responses", "callbacks", "deprecated",
     "security", "servers"}

licenseKnownFields ==
    {"name", "identifier", "url"}

infoKnownFields ==
    {"title", "summary", "description", "termsOfService", "contact",
     "license", "version"}

serverKnownFields ==
    {"url", "description", "variables"}

serverVariableKnownFields ==
    {"enum", "default", "description"}

tagKnownFields ==
    {"name", "description", "externalDocs"}

componentsKnownFields ==
    {"schemas", "responses", "parameters", "examples", "requestBodies",
     "headers", "securitySchemes", "links", "callbacks", "pathItems"}

openapiKnownFields ==
    {"openapi", "info", "jsonSchemaDialect", "servers", "paths", "webhooks",
     "components", "security", "tags", "externalDocs"}

\* strings.HasPrefix(key, "x-") and strings.HasPrefix(key, "/"), over the
\* keys the bounded inputs use.
HasPrefixX(key) == key \in {"x-foo", "x-big"}
HasPrefixSlash(key) == key \in {"/pets", "/cb"}

\* statusCodePattern.MatchString(key), over the keys the bounded inputs use.
statusCodePattern(key) == key \in {"200", "404", "2XX"}

(***************************************************************************)
(* encoding/json, type-directed.  decode(T, j) is json.Unmarshal of the    *)
(* text j into a fresh (zero) value of type T; it yields the error flag    *)
(* and the value.  A JSON null leaves a string, bool, number or struct     *)
(* untouched and makes a pointer, slice, map or interface nil; a value of  *)
(* the wrong JSON kind is an UnmarshalTypeError; unknown keys are skipped. *)
(***************************************************************************)
RECURSIVE Zero(_)
RECURSIVE decode(_, _, _)
RECURSIVE encode(_, _)
RECURSIVE UnmarshalJSON(_, _, _)
RECURSIVE MarshalJSON(_, _)

FieldNames(fields) == {fields[i].f : i \in DOMAIN fields}
FieldNamed(fields, nm) == fields[CHOOSE i \in DOMAIN fields : fields[i].f = nm]

\* The zero value of a struct: each field's zero value.
zeroStruct(fields) == [nm \in FieldNames(fields) |-> Zero(FieldNamed(fields, nm).T)]

Zero(T) ==
    CASE T.k = "string" -> ""
      [] T.k = "bool" -> FALSE
      [] T.k \in {"int", "float64"} -> 0
      [] T.k = "interface" -> GoNil
      [] T.k \in {"ptr", "slice", "map"} -> <<>>
      [] T.k \in {"struct", "custom"} -> zeroStruct(StructFields(T.n))

Ok(v) == [err |-> FALSE, v |-> v]
Fail(v) == [err |-> TRUE, v |-> v]

\* The name encoding/json folds a key to when it looks for the field of a
\* struct: a key matches a field by its exact name, or else without regard
\* to case.  Over the keys the bounded inputs use.
foldKey(key) == IF key = "Description" THEN "description" ELSE key

\* json.Unmarshal of an object into a struct with these fields: a field
\* whose key is present (exactly, or folded) is decoded into, the others
\* are left as they are.  No bounded input carries both spellings of a key.
decodeFields(fields, recv, j) ==
    LET keyOf(f) == IF f.key \in DOMAIN j.o THEN f.key
                    ELSE CHOOSE k \in DOMAIN j.o : foldKey(k) = f.key
        present(f) == f.key # "-" /\ \E k \in DOMAIN j.o : foldKey(k) = f.key
        field(f, nm) == IF present(f) THEN decode(f.T, recv[nm], j.o[keyOf(f)]) ELSE Ok(recv[nm])
        all(rs) == [err |-> \E nm \in DOMAIN rs : rs[nm].err,
                    v |-> [nm \in DOMAIN rs |-> rs[nm].v]]
    IN all([nm \in FieldNames(fields) |-> field(FieldNamed(fields, nm), nm)])

decodeStruct(T, recv, j) == decodeFields(StructFields(T.n), recv, j)

\* What a pointer, slice element or map element is decoded into: the
\* pointee or element at hand, a new zero value where there is none.
elemAt(recv, i, zero) == IF i \in DOMAIN recv THEN recv[i] ELSE zero

decodePtr(T, recv, j, zero) ==
    LET pointer(r) == [err |-> r.err, v |-> <<r.v>>]
    IN pointer(decode(T.e, elemAt(recv, 1, zero), j))

decodeSlice(T, recv, j, zero) ==
    LET all(rs) == [err |-> \E i \in DOMAIN rs : rs[i].err,
                    v |-> [i \in DOMAIN rs |-> rs[i].v]]
    IN all([i \in DOMAIN j.a |-> decode(T.e, elemAt(recv, i, zero), j.a[i])])

decodeMap(T, recv, j, zero) ==
    LET all(rs) == [err |-> \E key \in DOMAIN rs : rs[key].err,
                    v |-> [key \in DOMAIN rs \cup DOMAIN recv |->
                              IF key \in DOMAIN rs THEN rs[key].v ELSE recv[key]]]
    IN all([key \in DOMAIN j.o |-> decode(T.e, zero, j.o[key])])

decode(T, recv, j) ==
    CASE T.k = "string" ->
             IF j.t = "string" THEN Ok(j.s)
             ELSE IF j.t = "null" THEN Ok(recv) ELSE Fail(recv)
      [] T.k = "bool" ->
             IF j.t = "bool" THEN Ok(j.b)
             ELSE IF j.t = "null" THEN Ok(recv) ELSE Fail(recv)
      [] T.k = "int" ->
             IF j.t = "number" /\ ParseIntOk(j.n) THEN Ok(ParseFloat(j.n))
             ELSE IF j.t = "null" THEN Ok(recv) ELSE Fail(recv)
      [] T.k = "float64" ->
             IF j.t = "number" /\ ParseFloatOk(j.n) THEN Ok(ParseFloat(j.n))
             ELSE IF j.t = "null" THEN Ok(recv) ELSE Fail(recv)
      [] T.k = "interface" ->
             IF decodeAnyOk(j) THEN Ok(decodeAny(j)) ELSE Fail(recv)
      [] T.k \in {"ptr", "slice", "map"} ->
             IF j.t = "null" THEN Ok(<<>>)
             ELSE IF T.k = "ptr" THEN decodePtr(T, recv, j, Zero(T.e))
             ELSE IF T.k = "slice"
             THEN IF j.t # "array" THEN Fail(recv) ELSE decodeSlice(T, recv, j, Zero(T.e))
             ELSE IF j.t # "object" THEN Fail(recv) ELSE decodeMap(T, recv, j, Zero(T.e))
      [] T.k = "struct" ->
             IF j.t = "null" THEN Ok(recv)
             ELSE IF j.t # "object" THEN Fail(recv)
             ELSE decodeStruct(T, recv, j)
      [] T.k = "custom" -> UnmarshalJSON(T.n, recv, j)

\* var x T; err := json.Unmarshal(j, &x)
decodeNew(T, j) == decode(T, Zero(T), j)

\* omitempty: false, 0, a nil pointer or interface, an empty slice, map or string.
isEmptyValue(T, v) ==
    CASE T.k = "string" -> v = ""
      [] T.k = "bool" -> v = FALSE
      [] T.k \in {"int", "float64"} -> v = 0
      [] T.k = "interface" -> v.g = "nil"
      [] T.k \in {"ptr", "slice"} -> Len(v) = 0
      [] T.k = "map" -> DOMAIN v = {}
      [] OTHER -> FALSE

\* json.Marshal of a struct: its tagged fields in order, omitempty applied.
encodeFields(fields, v) ==
    LET shown == {i \in DOMAIN fields :
                     /\ fields[i].key # "-"
                     /\ ~(fields[i].oe /\ isEmptyValue(fields[i].T, v[fields[i].f]))}
        fieldOf(key) == fields[CHOOSE i \in shown : fields[i].key = key]
    IN JObj([key \in {fields[i].key : i \in shown} |->
                encode(fieldOf(key).T, v[fieldOf(key).f])], "struct")

encodeStruct(T, v) == encodeFields(StructFields(T.n), v)

encode(T, v) ==
    CASE T.k = "string" -> JStr(v)
      [] T.k = "bool" -> JBool(v)
      [] T.k \in {"int", "float64"} -> JNum(FormatNumber(v))
      [] T.k = "interface" -> encodeAny(v)
      [] T.k = "ptr" -> IF Len(v) = 0 THEN JNull ELSE encode(T.e, v[1])
      [] T.k = "slice" -> JArr([i \in DOMAIN v |-> encode(T.e, v[i])])
      [] T.k = "map" -> JObj([key \in DOMAIN v |-> encode(T.e, v[key])], "sorted")
      [] T.k = "struct" -> encodeStruct(T, v)
      [] T.k = "custom" -> MarshalJSON(T.n, v)

(***************************************************************************)
(* The Extension Codec.                                                    *)
(***************************************************************************)
\* json.Unmarshal(data, &raw) with raw a map[string]json.RawMessage, for a
\* text the typed decode has accepted (an object, or null: a nil map).
RawOf(j) == IF j.t = "object" THEN j.o ELSE EmptyMap

\* extractExtensions: the x- fields not among knownFields, each decoded as a
\* generic value; a value that does not decode is skipped; an empty result
\* is nil.
extractExtensions(raw, knownFields) ==
    [key \in {k \in DOMAIN raw :
                 HasPrefixX(k) /\ k \notin knownFields /\ decodeAnyOk(raw[k])}
        |-> decodeAny(raw[key])]

\* A faulty marshalWithExtensions: the extension map written as one member
\* of the object (what a struct encoding without the merge would give)
\* instead of its entries being merged into the object.
marshalExtensionsNested(T, v, extensions) ==
    LET nested(data) ==
            IF DOMAIN extensions = {} THEN data
            ELSE JObj(data.o @@ ("extensions" :>
                          JObj([key \in DOMAIN extensions |-> encodeAny(extensions[key])],
                               "sorted")), "struct")
    IN nested(encodeStruct(T, v))

\* marshalWithExtensions: the struct's own encoding when there is no
\* extension; otherwise that object re-read as a map, every extension
\* entry stored into it under its key, and the map encoded (sorted keys).
marshalWithExtensions(T, v, extensions) ==
    LET merged(data) ==
            IF DOMAIN extensions = {} THEN data
            ELSE JObj([key \in DOMAIN data.o \cup DOMAIN extensions |->
                          IF key \in DOMAIN extensions
                          THEN encodeAny(extensions[key])
                          ELSE data.o[key]], "sorted")
    IN merged(encodeStruct(T, v))

(***************************************************************************)
(* Referenceable nodes: IsReference, the New<Kind>Reference constructors,  *)
(* UnmarshalJSON and MarshalJSON of each kind.  N_UnmarshalJSON(x, j) is   *)
(* the call x.UnmarshalJSON(j) on the instance x: the error flag and the   *)
(* instance after the call.                                                *)
(***************************************************************************)
IsReference(n) == n.isReference

NewReference(kind, ref) ==
    [Zero(TCustom(kind)) EXCEPT !.isReference = TRUE, !.Ref = ref]

RefOnlyOf(n) == [Ref |-> n.Ref, Summary |-> n.Summary, Description |-> n.Description]

Parameter_UnmarshalJSON(p, j) ==
    LET assigned(r) ==
            IF r.err THEN Fail(p)
            ELSE Ok([r.v EXCEPT !.isReference = (r.v.Ref # ""),
                                !.Extensions = extractExtensions(RawOf(j), parameterKnownFields)])
    IN assigned(decodeNew(TStruct("Parameter"), j))

Parameter_MarshalJSON(p) ==
    IF IsReference(p)
    THEN marshalWithExtensions(TStruct("refOnly"), RefOnlyOf(p), p.Extensions)
    ELSE marshalWithExtensions(TStruct("Parameter"), p, p.Extensions)

Header_UnmarshalJSON(h, j) ==
    LET assigned(r) ==
            IF r.err THEN Fail(h)
            ELSE Ok([r.v EXCEPT !.isReference = (r.v.Ref # ""),
                                !.Extensions = extractExtensions(RawOf(j), headerKnownFields)])
    IN assigned(decodeNew(TStruct("Header"), j))

Header_MarshalJSON(h) ==
    IF IsReference(h)
    THEN marshalWithExtensions(TStruct("refOnly"), RefOnlyOf(h), h.Extensions)
    ELSE marshalWithExtensions(TStruct("Header"), h, h.Extensions)

Response_UnmarshalJSON(r0, j) ==
    LET assigned(r) ==
            IF r.err THEN Fail(r0)
            ELSE Ok([r.v EXCEPT !.isReference = (r.v.Ref # ""),
                                !.Extensions = extractExtensions(RawOf(j), responseKnownFields)])
    IN assigned(decodeNew(TStruct("Response"), j))

Response_MarshalJSON(r) ==
    IF IsReference(r)
    THEN marshalWithExtensions(TStruct("refOnly"), RefOnlyOf(r), r.Extensions)
    ELSE marshalWithExtensions(TStruct("Response"), r, r.Extensions)

RequestBody_UnmarshalJSON(rb, j) ==
    LET assigned(r) ==
            IF r.err THEN Fail(rb)
            ELSE Ok([r.v EXCEPT !.isReference = (r.v.Ref # ""),
                                !.Extensions = extractExtensions(RawOf(j), requestBodyKnownFields)])
    IN assigned(decodeNew(TStruct("RequestBody"), j))

RequestBody_MarshalJSON(rb) ==
    IF IsReference(rb)
    THEN marshalWithExtensions(TStruct("refOnly"), RefOnlyOf(rb), rb.Extensions)
    ELSE marshalWithExtensions(TStruct("RequestBody"), rb, rb.Extensions)

Example_UnmarshalJSON(e, j) ==
    LET assigned(r) ==
            IF r.err THEN Fail(e)
            ELSE Ok([r.v EXCEPT !.isReference = (r.v.Ref # ""),
                                !.Extensions = extractExtensions(RawOf(j), exampleKnownFields)])
    IN assigned(decodeNew(TStruct("Example"), j))

\* exampleRefOnly holds $ref and summary only.
Example_MarshalJSON(e) ==
    IF IsReference(e)
    THEN marshalWithExtensions(TStruct("exampleRefOnly"),
                               [Ref |-> e.Ref, Summary |-> e.Summary], e.Extensions)
    ELSE marshalWithExtensions(TStruct("Example"), e, e.Extensions)

Link_UnmarshalJSON(l, j) ==
    LET assigned(r) ==
            IF r.err THEN Fail(l)
            ELSE Ok([r.v EXCEPT !.isReference = (r.v.Ref # ""),
                                !.Extensions = extractExtensions(RawOf(j), linkKnownFields)])
    IN assigned(decodeNew(TStruct("Link"), j))

Link_MarshalJSON(l) ==
    IF IsReference(l)
    THEN marshalWithExtensions(TStruct("refOnly"), RefOnlyOf(l), l.Extensions)
    ELSE marshalWithExtensions(TStruct("Link"), l, l.Extensions)

SecurityScheme_UnmarshalJSON(ss, j) ==
    LET assigned(r) ==
            IF r.err THEN Fail(ss)
            ELSE Ok([r.v EXCEPT !.isReference = (r.v.Ref # ""),
                                !.Extensions = extractExtensions(RawOf(j), securitySchemeKnownFields)])
    IN assigned(decodeNew(TStruct("SecurityScheme"), j))

SecurityScheme_MarshalJSON(ss) ==
    IF IsReference(ss)
    THEN marshalWithExtensions(TStruct("refOnly"), RefOnlyOf(ss), ss.Extensions)
    ELSE marshalWithExtensions(TStruct("SecurityScheme"), ss, ss.Extensions)

(***************************************************************************)
(* Go ranges over a map in an unspecified order: the loops below take the  *)
(* order of the keys as a parameter, and their callers choose it.          *)
(***************************************************************************)
Orders(S) ==
    {o \in [1..Cardinality(S) -> S] : \A k \in S : \E i \in 1..Cardinality(S) : o[i] = k}
SomeOrder(S) == CHOOSE o \in Orders(S) : TRUE

\* The loop of Callback.UnmarshalJSON from the i-th key on: it returns at
\* the first value that does not decode, leaving what it stored so far.
RECURSIVE callbackLoop(_, _, _, _)
callbackLoop(c, raw, ord, i) ==
    IF i > Len(ord) THEN Ok(c)
    ELSE LET key == ord[i]
         IN IF HasPrefixX(key)
            THEN IF ~decodeAnyOk(raw[key]) THEN Fail(c)
                 ELSE callbackLoop([c EXCEPT !.Extensions = (key :> decodeAny(raw[key])) @@ @],
                                   raw, ord, i + 1)
            ELSE LET stored(r) ==
                         IF r.err THEN Fail(c)
                         ELSE callbackLoop([c EXCEPT !.Paths = (key :> <<r.v>>) @@ @],
                                           raw, ord, i + 1)
                 IN stored(decodeNew(TCustom("PathItem"), raw[key]))

\* json.Unmarshal(data, &ref) with ref a struct{Ref string `json:"$ref"`}.
refProbe(j) ==
    IF j.t = "null" THEN Ok("")
    ELSE IF j.t # "object" THEN Fail("")
    ELSE IF "$ref" \notin DOMAIN j.o THEN Ok("")
    ELSE decode(TString, "", j.o["$ref"])

\* err == nil && ref.Ref != ""
refProbed(j) == refProbe(j) \notin {Ok(""), Fail("")}

Callback_UnmarshalJSON(c, j, ord) ==
    IF refProbed(j)
    THEN LET marked == [c EXCEPT !.isReference = TRUE]
             assigned(r) ==
                 IF r.err THEN Fail(marked)
                 ELSE Ok([marked EXCEPT !.Ref = r.v.Ref, !.Summary = r.v.Summary,
                                        !.Description = r.v.Description])
         IN assigned(decodeNew(TStruct("refOnly"), j))
    ELSE IF j.t \notin {"object", "null"} THEN Fail(c)
    ELSE callbackLoop([c EXCEPT !.Paths = EmptyMap, !.Extensions = EmptyMap],
                      RawOf(j), ord, 1)

Callback_MarshalJSON(c) ==
    IF IsReference(c)
    THEN marshalWithExtensions(TStruct("refOnly"), RefOnlyOf(c), c.Extensions)
    ELSE JObj([key \in DOMAIN c.Paths \cup DOMAIN c.Extensions |->
                  IF key \in DOMAIN c.Extensions
                  THEN encodeAny(c.Extensions[key])
                  ELSE encode(TPtr(TCustom("PathItem")), c.Paths[key])], "sorted")

\* The loop of Paths.UnmarshalJSON: x- keys are extensions, keys that start
\* with "/" are path items, any other key is skipped.
RECURSIVE pathsLoop(_, _, _, _)
pathsLoop(p, raw, ord, i) ==
    IF i > Len(ord) THEN Ok(p)
    ELSE LET key == ord[i]
         IN IF HasPrefixX(key)
            THEN IF ~decodeAnyOk(raw[key]) THEN Fail(p)
                 ELSE pathsLoop([p EXCEPT !.Extensions = (key :> decodeAny(raw[key])) @@ @],
                                raw, ord, i + 1)
            ELSE IF HasPrefixSlash(key)
            THEN LET stored(r) ==
                         IF r.err THEN Fail(p)
                         ELSE pathsLoop([p EXCEPT !.Paths = (key :> <<r.v>>) @@ @],
                                        raw, ord, i + 1)
                 IN stored(decodeNew(TCustom("PathItem"), raw[key]))
            ELSE pathsLoop(p, raw, ord, i + 1)

Paths_UnmarshalJSON(p, j, ord) ==
    IF j.t \notin {"object", "null"} THEN Fail(p)
    ELSE pathsLoop([p EXCEPT !.Paths = EmptyMap, !.Extensions = EmptyMap],
                   RawOf(j), ord, 1)

Paths_MarshalJSON(p) ==
    JObj([key \in DOMAIN p.Paths \cup DOMAIN p.Extensions |->
             IF key \in DOMAIN p.Extensions
             THEN encodeAny(p.Extensions[key])
             ELSE encode(TPtr(TCustom("PathItem")), p.Paths[key])], "sorted")

\* The loop of Responses.UnmarshalJSON: "default", then status codes, then
\* x- keys; any other key is skipped.
RECURSIVE responsesLoop(_, _, _, _)
responsesLoop(r, raw, ord, i) ==
    IF i > Len(ord) THEN Ok(r)
    ELSE LET key == ord[i]
             stored(resp) ==
                 IF key = "default"
                 THEN IF resp.err THEN Fail([r EXCEPT !.Default = <<resp.v>>])
                      ELSE responsesLoop([r EXCEPT !.Default = <<resp.v>>], raw, ord, i + 1)
                 ELSE IF resp.err THEN Fail(r)
                 ELSE responsesLoop([r EXCEPT !.StatusCode = (key :> <<resp.v>>) @@ @],
                                    raw, ord, i + 1)
         IN IF key = "default" \/ statusCodePattern(key)
            THEN stored(decodeNew(TCustom("Response"), raw[key]))
            ELSE IF HasPrefixX(key)
            THEN IF ~decodeAnyOk(raw[key]) THEN Fail(r)
                 ELSE responsesLoop([r EXCEPT !.Extensions = (key :> decodeAny(raw[key])) @@ @],
                                    raw, ord, i + 1)
            ELSE responsesLoop(r, raw, ord, i + 1)

Responses_UnmarshalJSON(r, j, ord) ==
    IF j.t \notin {"object", "null"} THEN Fail(r)
    ELSE responsesLoop([r EXCEPT !.StatusCode = EmptyMap, !.Extensions = EmptyMap],
                       RawOf(j), ord, 1)

Responses_MarshalJSON(r) ==
    LET keys == (IF Len(r.Default) > 0 THEN {"default"} ELSE {})
                    \cup DOMAIN r.StatusCode \cup DOMAIN r.Extensions
    IN JObj([key \in keys |->
                IF key \in DOMAIN r.Extensions THEN encodeAny(r.Extensions[key])
                ELSE IF key \in DOMAIN r.StatusCode
                THEN encode(TPtr(TCustom("Response")), r.StatusCode[key])
                ELSE encode(TPtr(TCustom("Response")), r.Default)], "sorted")

(***************************************************************************)
(* Schema and StringOrStringArray.                                         *)
(***************************************************************************)
\* Schema.UnmarshalJSON: json.Unmarshal(data, &b) with b a bool succeeds on
\* true, false and null (null leaves b false); then only boolValue is set.
\* Otherwise the alias is decoded and assigned over the whole receiver.
Schema_UnmarshalJSON(s, j) ==
    IF j.t \in {"bool", "null"}
    THEN Ok([s EXCEPT !.boolValue = << decode(TBool, FALSE, j).v >>])
    ELSE LET assigned(r) ==
                 IF r.err THEN Fail(s)
                 ELSE Ok([r.v EXCEPT !.Extensions =
                                         extractExtensions(RawOf(j), schemaKnownFields)])
         IN assigned(decodeNew(TStruct("Schema"), j))

\* An encoder without the boolean branch: every schema goes out as the
\* object of its alias.
Schema_MarshalObject(s) ==
    marshalWithExtensions(TStruct("Schema"), s, s.Extensions)

Schema_MarshalJSON(s) ==
    IF Len(s.boolValue) > 0 THEN JBool(s.boolValue[1])
    ELSE marshalWithExtensions(TStruct("Schema"), s, s.Extensions)

IsBooleanSchema(s) == Len(s.boolValue) > 0
BooleanValue(s) == s.boolValue
NewBooleanSchema(value) == [Zero(TCustom("Schema")) EXCEPT !.boolValue = <<value>>]

\* StringOrStringArray.UnmarshalJSON: the array form is tried first (null
\* is a nil array), then the string form; only the field tried is written.
StringOrStringArray_UnmarshalJSON(s, j) ==
    LET tried(arr, str) ==
            IF ~arr.err THEN Ok([s EXCEPT !.Array = arr.v])
            ELSE IF str.err THEN Fail(s)
            ELSE Ok([s EXCEPT !.String = str.v])
    IN tried(decode(TSlice(TString), <<>>, j), decode(TString, "", j))

StringOrStringArray_MarshalJSON(s) ==
    IF Len(s.Array) > 0 THEN encode(TSlice(TString), s.Array) ELSE JStr(s.String)

(***************************************************************************)
(* The nodes without a reference shape: decode the alias, assign it over   *)
(* the receiver, capture the extensions; encode the alias with them.       *)
(***************************************************************************)
PathItem_UnmarshalJSON(pi, j) ==
    LET assigned(r) ==
            IF r.err THEN Fail(pi)
            ELSE Ok([r.v EXCEPT !.Extensions = extractExtensions(RawOf(j), pathItemKnownFields)])
    IN assigned(decodeNew(TStruct("PathItem"), j))

PathItem_MarshalJSON(pi) == marshalWithExtensions(TStruct("PathItem"), pi, pi.Extensions)

Operation_UnmarshalJSON(o, j) ==
    LET assigned(r) ==
            IF r.err THEN Fail(o)
            ELSE Ok([r.v EXCEPT !.Extensions = extractExtensions(RawOf(j), operationKnownFields)])
    IN assigned(decodeNew(TStruct("Operation"), j))

Operation_MarshalJSON(o) == marshalWithExtensions(TStruct("Operation"), o, o.Extensions)

MediaType_UnmarshalJSON(mt, j) ==
    LET assigned(r) ==
            IF r.err THEN Fail(mt)
            ELSE Ok([r.v EXCEPT !.Extensions = extractExtensions(RawOf(j), mediaTypeKnownFields)])
    IN assigned(decodeNew(TStruct("MediaType"), j))

MediaType_MarshalJSON(mt) == marshalWithExtensions(TStruct("MediaType"), mt, mt.Extensions)

Encoding_UnmarshalJSON(e, j) ==
    LET assigned(r) ==
            IF r.err THEN Fail(e)
            ELSE Ok([r.v EXCEPT !.Extensions = extractExtensions(RawOf(j), encodingKnownFields)])
    IN assigned(decodeNew(TStruct("Encoding"), j))

Encoding_MarshalJSON(e) == marshalWithExtensions(TStruct("Encoding"), e, e.Extensions)

OAuthFlows_UnmarshalJSON(of, j) ==
    LET assigned(r) ==
            IF r.err THEN Fail(of)
            ELSE Ok([r.v EXCEPT !.Extensions = extractExtensions(RawOf(j), oauthFlowsKnownFields)])
    IN assigned(decodeNew(TStruct("OAuthFlows"), j))

OAuthFlows_MarshalJSON(of) == marshalWithExtensions(TStruct("OAuthFlows"), of, of.Extensions)

OAuthFlow_UnmarshalJSON(of, j) ==
    LET assigned(r) ==
            IF r.err THEN Fail(of)
            ELSE Ok([r.v EXCEPT !.Extensions = extractExtensions(RawOf(j), oauthFlowKnownFields)])
    IN assigned(decodeNew(TStruct("OAuthFlow"), j))

OAuthFlow_MarshalJSON(of) == marshalWithExtensions(TStruct("OAuthFlow"), of, of.Extensions)

License_UnmarshalJSON(l, j) ==
    LET assigned(r) ==
            IF r.err THEN Fail(l)
            ELSE Ok([r.v EXCEPT !.Extensions = extractExtensions(RawOf(j), licenseKnownFields)])
    IN assigned(decodeNew(TStruct("License"), j))

License_MarshalJSON(l) == marshalWithExtensions(TStruct("License"), l, l.Extensions)

Info_UnmarshalJSON(i, j) ==
    LET assigned(r) ==
            IF r.err THEN Fail(i)
            ELSE Ok([r.v EXCEPT !.Extensions = extractExtensions(RawOf(j), infoKnownFields)])
    IN assigned(decodeNew(TStruct("Info"), j))

Info_MarshalJSON(i) == marshalWithExtensions(TStruct("Info"), i, i.Extensions)

Server_UnmarshalJSON(sv, j) ==
    LET assigned(r) ==
            IF r.err THEN Fail(sv)
            ELSE Ok([r.v EXCEPT !.Extensions = extractExtensions(RawOf(j), serverKnownFields)])
    IN assigned(decodeNew(TStruct("Server"), j))

Server_MarshalJSON(sv) == marshalWithExtensions(TStruct("Server"), sv, sv.Extensions)

ServerVariable_UnmarshalJSON(sv, j) ==
    LET assigned(r) ==
            IF r.err THEN Fail(sv)
            ELSE Ok([r.v EXCEPT !.Extensions = extractExtensions(RawOf(j), serverVariableKnownFields)])
    IN assigned(decodeNew(TStruct("ServerVariable"), j))

ServerVariable_MarshalJSON(sv) == marshalWithExtensions(TStruct("ServerVariable"), sv, sv.Extensions)

Tag_UnmarshalJSON(tg, j) ==
    LET assigned(r) ==
            IF r.err THEN Fail(tg)
            ELSE Ok([r.v EXCEPT !.Extensions = extractExtensions(RawOf(j), tagKnownFields)])
    IN assigned(decodeNew(TStruct("Tag"), j))

Tag_MarshalJSON(tg) == marshalWithExtensions(TStruct("Tag"), tg, tg.Extensions)

Components_UnmarshalJSON(c, j) ==
    LET assigned(r) ==
            IF r.err THEN Fail(c)
            ELSE Ok([r.v EXCEPT !.Extensions = extractExtensions(RawOf(j), componentsKnownFields)])
    IN assigned(decodeNew(TStruct("Components"), j))

Components_MarshalJSON(c) == marshalWithExtensions(TStruct("Components"), c, c.Extensions)

OpenAPI_UnmarshalJSON(o, j) ==
    LET assigned(r) ==
            IF r.err THEN Fail(o)
            ELSE Ok([r.v EXCEPT !.Extensions = extractExtensions(RawOf(j), openapiKnownFields)])
    IN assigned(decodeNew(TStruct("OpenAPI"), j))

OpenAPI_MarshalJSON(o) == marshalWithExtensions(TStruct("OpenAPI"), o, o.Extensions)

\* x.UnmarshalJSON(j) as encoding/json calls it on a value of a type with
\* a custom decoder, and x.MarshalJSON().
UnmarshalJSON(n, recv, j) ==
    CASE n = "Parameter" -> Parameter_UnmarshalJSON(recv, j)
      [] n = "Header" -> Header_UnmarshalJSON(recv, j)
      [] n = "Response" -> Response_UnmarshalJSON(recv, j)
      [] n = "RequestBody" -> RequestBody_UnmarshalJSON(recv, j)
      [] n = "Example" -> Example_UnmarshalJSON(recv, j)
      [] n = "Link" -> Link_UnmarshalJSON(recv, j)
      [] n = "SecurityScheme" -> SecurityScheme_UnmarshalJSON(recv, j)
      [] n = "Callback" -> Callback_UnmarshalJSON(recv, j, SomeOrder(DOMAIN RawOf(j)))
      [] n = "Paths" -> Paths_UnmarshalJSON(recv, j, SomeOrder(DOMAIN RawOf(j)))
      [] n = "Responses" -> Responses_UnmarshalJSON(recv, j, SomeOrder(DOMAIN RawOf(j)))
      [] n = "Schema" -> Schema_UnmarshalJSON(recv, j)
      [] n = "StringOrStringArray" -> StringOrStringArray_UnmarshalJSON(recv, j)
      [] n = "PathItem" -> PathItem_UnmarshalJSON(recv, j)
      [] n = "Operation" -> Operation_UnmarshalJSON(recv, j)
      [] n = "MediaType" -> MediaType_UnmarshalJSON(recv, j)
      [] n = "Encoding" -> Encoding_UnmarshalJSON(recv, j)
      [] n = "OAuthFlows" -> OAuthFlows_UnmarshalJSON(recv, j)
      [] n = "OAuthFlow" -> OAuthFlow_UnmarshalJSON(recv, j)
      [] n = "ServerVariable" -> ServerVariable_UnmarshalJSON(recv, j)
      [] n = "License" -> License_UnmarshalJSON(recv, j)
      [] n = "Info" -> Info_UnmarshalJSON(recv, j)
      [] n = "Server" -> Server_UnmarshalJSON(recv, j)
      [] n = "Tag" -> Tag_UnmarshalJSON(recv, j)
      [] n = "Components" -> Components_UnmarshalJSON(recv, j)
      [] n = "OpenAPI" -> OpenAPI_UnmarshalJSON(recv, j)

MarshalJSON(n, v) ==
    CASE n = "Parameter" -> Parameter_MarshalJSON(v)
      [] n = "Header" -> Header_MarshalJSON(v)
      [] n = "Response" -> Response_MarshalJSON(v)
      [] n = "RequestBody" -> RequestBody_MarshalJSON(v)
      [] n = "Example" -> Example_MarshalJSON(v)
      [] n = "Link" -> Link_MarshalJSON(v)
      [] n = "SecurityScheme" -> SecurityScheme_MarshalJSON(v)
      [] n = "Callback" -> Callback_MarshalJSON(v)
      [] n = "Paths" -> Paths_MarshalJSON(v)
      [] n = "Responses" -> Responses_MarshalJSON(v)
      [] n = "Schema" -> Schema_MarshalJSON(v)
      [] n = "StringOrStringArray" -> StringOrStringArray_MarshalJSON(v)
      [] n = "PathItem" -> PathItem_MarshalJSON(v)
      [] n = "Operation" -> Operation_MarshalJSON(v)
      [] n = "MediaType" -> MediaType_MarshalJSON(v)
      [] n = "Encoding" -> Encoding_MarshalJSON(v)
      [] n = "OAuthFlows" -> OAuthFlows_MarshalJSON(v)
      [] n = "OAuthFlow" -> OAuthFlow_MarshalJSON(v)
      [] n = "ServerVariable" -> ServerVariable_MarshalJSON(v)
      [] n = "License" -> License_MarshalJSON(v)
      [] n = "Info" -> Info_MarshalJSON(v)
      [] n = "Server" -> Server_MarshalJSON(v)
      [] n = "Tag" -> Tag_MarshalJSON(v)
      [] n = "Components" -> Components_MarshalJSON(v)
      [] n = "OpenAPI" -> OpenAPI_MarshalJSON(v)

(***************************************************************************)
(* Validate.  Every validate function of the source is handed the result   *)
(* under construction and only ever appends findings to it:                *)
(* N_validate(x, path, ord) is the sequence of findings that the call      *)
(* x.validate(path, result) appends, in the order it appends them.  ord is *)
(* the order in which the run ranges over the keys of the maps it walks.   *)
(***************************************************************************)
\* result.addError(path, message): the finding appended.
addError(path, message) == << [Path |-> path, Message |-> message] >>

RECURSIVE concat(_)
concat(ss) == IF ss = <<>> THEN <<>> ELSE Head(ss) \o concat(Tail(ss))

\* The keys of the map m in the order a range over it visits them.
keysOf(m, ord) ==
    SelectSeq(ord, LAMBDA k : k \in DOMAIN m)
        \o SomeOrder(DOMAIN m \ {ord[i] : i \in DOMAIN ord})

\* for key, v := range m { body }  and  for i, v := range s { body }
rangeMap(m, ord, body(_, _)) ==
    LET visited(keys) == concat([i \in DOMAIN keys |-> body(keys[i], m[keys[i]])])
    IN visited(keysOf(m, ord))

rangeSlice(s, body(_, _)) == concat([i \in DOMAIN s |-> body(i - 1, s[i])])

\* fmt.Sprintf("%s[%s]", path, name) and fmt.Sprintf("%s[%d]", path, i)
atKey(path, name) == path \o "[" \o name \o "]"
atIndex(path, i) == path \o "[" \o ToString(i) \o "]"

\* strings.HasPrefix(o.OpenAPI, "3.1"), over the versions the bounded
\* documents carry.
HasPrefix31(version) == version \in {"3.1.0", "3.1.1"}

\* namePattern.MatchString(name) for ^[a-zA-Z0-9\.\-_]+$, over the names
\* the bounded documents use.
namePattern(name) == name \notin {"", "bad name", "/pets", "/cb"}

\* regexp.Compile(pattern), over the patterns the bounded documents use:
\* the text of the error (without the quoted expression that ends it), or
\* the empty string when the pattern compiles.
regexpCompile(pattern) ==
    IF pattern = "(" THEN "error parsing regexp: missing closing )" ELSE ""

\* StringOrStringArray.IsEmpty and Contains, on a *StringOrStringArray.
StringOrStringArray_IsEmpty(s) ==
    Len(s) = 0 \/ (s[1].String = "" /\ Len(s[1].Array) = 0)

StringOrStringArray_Contains(s, typ) ==
    IF Len(s) = 0 THEN FALSE
    ELSE IF s[1].String # "" THEN s[1].String = typ
    ELSE \E i \in DOMAIN s[1].Array : s[1].Array[i] = typ

validTypes == {"string", "number", "integer", "boolean", "array", "object", "null"}

\* A paired bound where every pair fails on equal members.
boundViolatedOnEqual(min, max, strict) ==
    Len(min) > 0 /\ Len(max) > 0 /\ min[1] >= max[1]

\* The test Schema.validate makes of a paired bound: both members are set
\* and *min > *max (*min >= *max for the exclusive pair).
boundViolated(min, max, strict) ==
    Len(min) > 0 /\ Len(max) > 0
        /\ (IF strict THEN min[1] >= max[1] ELSE min[1] > max[1])

RECURSIVE Schema_validate(_, _, _)
Schema_validate(s, path, ord) ==
    IF IsBooleanSchema(s) THEN <<>>
    ELSE IF s.Ref # "" THEN <<>>
    ELSE LET types == IF ~StringOrStringArray_IsEmpty(s.Type)
                      THEN IF s.Type[1].String # "" THEN << s.Type[1].String >>
                           ELSE s.Type[1].Array
                      ELSE <<>>
             pair(min, max, strict, message) ==
                 IF boundViolated(min, max, strict)
                 THEN addError(path, message) ELSE <<>>
             at(sub, where) ==
                 IF Len(sub) > 0 THEN Schema_validate(sub[1], where, ord) ELSE <<>>
         IN concat([i \in DOMAIN types |->
                       IF types[i] \notin validTypes
                       THEN addError(path \o ".type", "invalid type '" \o types[i] \o "'")
                       ELSE <<>>])
            \o (IF Len(s.Type) > 0 /\ StringOrStringArray_Contains(s.Type, "array")
                      /\ Len(s.Items) = 0 /\ Len(s.PrefixItems) = 0
                THEN addError(path, "array type should have items or prefixItems defined")
                ELSE <<>>)
            \o pair(s.Minimum, s.Maximum, FALSE, "minimum cannot be greater than maximum")
            \o pair(s.ExclusiveMinimum, s.ExclusiveMaximum, TRUE,
                    "exclusiveMinimum must be less than exclusiveMaximum")
            \o pair(s.MinLength, s.MaxLength, FALSE, "minLength cannot be greater than maxLength")
            \o pair(s.MinItems, s.MaxItems, FALSE, "minItems cannot be greater than maxItems")
            \o pair(s.MinProperties, s.MaxProperties, FALSE,
                    "minProperties cannot be greater than maxProperties")
            \o pair(s.MinContains, s.MaxContains, FALSE,
                    "minContains cannot be greater than maxContains")
            \o (IF s.Pattern # "" /\ regexpCompile(s.Pattern) # ""
                THEN addError(path \o ".pattern",
                              "invalid regex pattern: " \o regexpCompile(s.Pattern))
                ELSE <<>>)
            \o (IF Len(s.Required) > 0 /\ DOMAIN s.Properties # {}
                THEN concat([i \in DOMAIN s.Required |->
                                IF s.Required[i] \notin DOMAIN s.Properties
                                THEN addError(path \o ".required",
                                              "required property '" \o s.Required[i]
                                                  \o "' not defined in properties")
                                ELSE <<>>])
                ELSE <<>>)
            \o at(s.Items, path \o ".items")
            \o rangeSlice(s.PrefixItems, LAMBDA i, schema : at(schema, atIndex(path \o ".prefixItems", i)))
            \o rangeMap(s.Properties, ord, LAMBDA name, prop : at(prop, atKey(path \o ".properties", name)))
            \o at(s.AdditionalProperties, path \o ".additionalProperties")
            \o rangeSlice(s.AllOf, LAMBDA i, schema : at(schema, atIndex(path \o ".allOf", i)))
            \o rangeSlice(s.AnyOf, LAMBDA i, schema : at(schema, atIndex(path \o ".anyOf", i)))
            \o rangeSlice(s.OneOf, LAMBDA i, schema : at(schema, atIndex(path \o ".oneOf", i)))
            \o at(s.Not, path \o ".not")
            \o at(s.If, path \o ".if")
            \o at(s.Then, path \o ".then")
            \o at(s.Else, path \o ".else")
            \o at(s.Contains, path \o ".contains")
            \o at(s.UnevaluatedItems, path \o ".unevaluatedItems")
            \o at(s.UnevaluatedProperties, path \o ".unevaluatedProperties")

\* Example XOR Examples, as Parameter, Header and MediaType check it.
bothExamples(x, path) ==
    IF x.Example.g # "nil" /\ DOMAIN x.Examples # {}
    THEN addError(path, "cannot have both 'example' and 'examples'") ELSE <<>>

\* Schema XOR Content, as Parameter and Header check it.
schemaXorContent(x, path) ==
    (IF Len(x.Schema) = 0 /\ DOMAIN x.Content = {}
     THEN addError(path, "must have either 'schema' or 'content'") ELSE <<>>)
    \o (IF Len(x.Schema) > 0 /\ DOMAIN x.Content # {}
        THEN addError(path, "cannot have both 'schema' and 'content'") ELSE <<>>)

Header_validate(h, path) ==
    IF IsReference(h) THEN <<>>
    ELSE schemaXorContent(h, path)
         \o bothExamples(h, path)
         \o (IF h.Style # "" /\ h.Style # "simple"
             THEN addError(path \o ".style", "header style must be 'simple'") ELSE <<>>)

encodingStyles == {"form", "spaceDelimited", "pipeDelimited", "deepObject"}

Encoding_validate(e, path, ord) ==
    (IF e.Style # "" /\ e.Style \notin encodingStyles
     THEN addError(path \o ".style", "invalid encoding style '" \o e.Style \o "'")
     ELSE <<>>)
    \o rangeMap(e.Headers, ord, LAMBDA name, header :
                   IF Len(header) > 0
                   THEN Header_validate(header[1], atKey(path \o ".headers", name))
                   ELSE <<>>)

MediaType_validate(m, path, ord) ==
    bothExamples(m, path)
    \o (IF Len(m.Schema) > 0 THEN Schema_validate(m.Schema[1], path \o ".schema", ord) ELSE <<>>)
    \o rangeMap(m.Encoding, ord, LAMBDA name, enc :
                   IF Len(enc) > 0
                   THEN Encoding_validate(enc[1], atKey(path \o ".encoding", name), ord)
                   ELSE <<>>)

\* for mediaType, mt := range content { mt.validate(...) }
contentValidate(content, path, ord) ==
    rangeMap(content, ord, LAMBDA mediaType, mt :
                IF Len(mt) > 0
                THEN MediaType_validate(mt[1], atKey(path \o ".content", mediaType), ord)
                ELSE <<>>)

Link_validate(l, path) ==
    IF IsReference(l) THEN <<>>
    ELSE IF l.OperationId # "" /\ l.OperationRef # ""
    THEN addError(path, "cannot have both 'operationId' and 'operationRef'")
    ELSE <<>>

Response_validate(r, path, ord) ==
    IF IsReference(r) THEN <<>>
    ELSE (IF r.Description = ""
          THEN addError(path \o ".description", "required field is missing") ELSE <<>>)
         \o rangeMap(r.Headers, ord, LAMBDA name, header :
                        IF Len(header) > 0
                        THEN Header_validate(header[1], atKey(path \o ".headers", name))
                        ELSE <<>>)
         \o contentValidate(r.Content, path, ord)
         \o rangeMap(r.Links, ord, LAMBDA name, link :
                        IF Len(link) > 0
                        THEN Link_validate(link[1], atKey(path \o ".links", name))
                        ELSE <<>>)

Responses_validate(r, path, ord) ==
    (IF ~(Len(r.Default) > 0 \/ DOMAIN r.StatusCode # {})
     THEN addError(path, "must contain at least one response") ELSE <<>>)
    \o rangeMap(r.StatusCode, ord, LAMBDA code, resp :
                   (IF ~statusCodePattern(code)
                    THEN addError(path \o "." \o code,
                                  "invalid status code pattern, must be 3-digit code or pattern like 2XX")
                    ELSE <<>>)
                   \o (IF Len(resp) > 0
                       THEN Response_validate(resp[1], path \o "." \o code, ord)
                       ELSE <<>>))
    \o (IF Len(r.Default) > 0
        THEN Response_validate(r.Default[1], path \o ".default", ord) ELSE <<>>)

validIn == {"query", "header", "path", "cookie"}

\* A table that allows form everywhere.
validStylesForm ==
    [in \in validIn |-> {"matrix", "label", "simple", "form"}]

validStyles ==
    [in \in validIn |->
        CASE in = "path" -> {"matrix", "label", "simple"}
          [] in = "query" -> {"form", "spaceDelimited", "pipeDelimited", "deepObject"}
          [] in = "header" -> {"simple"}
          [] in = "cookie" -> {"form"}]

Parameter_validate(p, path, ord) ==
    IF IsReference(p) THEN <<>>
    ELSE (IF p.Name = ""
          THEN addError(path \o ".name", "required field is missing") ELSE <<>>)
         \o (IF p.In = "" THEN addError(path \o ".in", "required field is missing")
             ELSE IF p.In \notin validIn
             THEN addError(path \o ".in",
                           "must be one of: query, header, path, cookie; got " \o p.In)
             ELSE <<>>)
         \o (IF p.In = "path" /\ ~p.Required
             THEN addError(path \o ".required", "path parameters must have required: true")
             ELSE <<>>)
         \o (IF p.Style # "" /\ p.In \in DOMAIN validStyles /\ p.Style \notin validStyles[p.In]
             THEN addError(path \o ".style",
                           "invalid style '" \o p.Style \o "' for parameter in '" \o p.In \o "'")
             ELSE <<>>)
         \o schemaXorContent(p, path)
         \o bothExamples(p, path)
         \o (IF Len(p.Schema) > 0
             THEN Schema_validate(p.Schema[1], path \o ".schema", ord) ELSE <<>>)

\* for i, param := range parameters { param.validate(...) }
parametersValidate(parameters, path, ord) ==
    rangeSlice(parameters, LAMBDA i, param :
                  IF Len(param) > 0
                  THEN Parameter_validate(param[1], atIndex(path \o ".parameters", i), ord)
                  ELSE <<>>)

RequestBody_validate(r, path, ord) ==
    IF IsReference(r) THEN <<>>
    ELSE (IF DOMAIN r.Content = {}
          THEN addError(path \o ".content", "required field is missing") ELSE <<>>)
         \o contentValidate(r.Content, path, ord)

RECURSIVE PathItem_validate(_, _, _)

Callback_validate(c, path, ord) ==
    IF IsReference(c) THEN <<>>
    ELSE rangeMap(c.Paths, ord, LAMBDA expr, pathItem :
                     IF Len(pathItem) > 0
                     THEN PathItem_validate(pathItem[1], atKey(path, expr), ord)
                     ELSE <<>>)

Operation_validate(o, path, ord) ==
    (IF Len(o.Responses) = 0
     THEN addError(path \o ".responses", "required field is missing")
     ELSE Responses_validate(o.Responses[1], path \o ".responses", ord))
    \o parametersValidate(o.Parameters, path, ord)
    \o (IF Len(o.RequestBody) > 0
        THEN RequestBody_validate(o.RequestBody[1], path \o ".requestBody", ord) ELSE <<>>)
    \o rangeMap(o.Callbacks, ord, LAMBDA name, callback :
                   IF Len(callback) > 0
                   THEN Callback_validate(callback[1], atKey(path \o ".callbacks", name), ord)
                   ELSE <<>>)

\* The operations of a path item in the order PathItem.validate takes them.
operationsOf(p) ==
    << <<"get", p.Get>>, <<"put", p.Put>>, <<"post", p.Post>>, <<"delete", p.Delete>>,
       <<"options", p.Options>>, <<"head", p.Head>>, <<"patch", p.Patch>>,
       <<"trace", p.Trace>> >>

PathItem_validate(p, path, ord) ==
    IF p.Ref # "" THEN <<>>
    ELSE parametersValidate(p.Parameters, path, ord)
         \o concat([i \in DOMAIN operationsOf(p) |->
                       IF Len(operationsOf(p)[i][2]) > 0
                       THEN Operation_validate(operationsOf(p)[i][2][1],
                                               path \o "." \o operationsOf(p)[i][1], ord)
                       ELSE <<>>])

Paths_validate(p, path, ord) ==
    rangeMap(p.Paths, ord, LAMBDA pathPattern, pathItem :
                (IF ~HasPrefixSlash(pathPattern)
                 THEN addError(path \o "." \o pathPattern, "path must start with /")
                 ELSE <<>>)
                \o (IF Len(pathItem) > 0
                    THEN PathItem_validate(pathItem[1], atKey(path, pathPattern), ord)
                    ELSE <<>>))

ServerVariable_validate(v, path) ==
    (IF v.Default = ""
     THEN addError(path \o ".default", "required field is missing") ELSE <<>>)
    \o (IF Len(v.Enum) > 0 /\ ~\E i \in DOMAIN v.Enum : v.Enum[i] = v.Default
        THEN addError(path \o ".default", "default value must be one of the enum values")
        ELSE <<>>)

Server_validate(s, path, ord) ==
    (IF s.URL = "" THEN addError(path \o ".url", "required field is missing") ELSE <<>>)
    \o rangeMap(s.Variables, ord, LAMBDA name, v :
                   IF Len(v) > 0
                   THEN ServerVariable_validate(v[1], atKey(path \o ".variables", name))
                   ELSE <<>>)

License_validate(l, path) ==
    (IF l.Name = "" THEN addError(path \o ".name", "required field is missing") ELSE <<>>)
    \o (IF l.Identifier # "" /\ l.URL # ""
        THEN addError(path, "identifier and url are mutually exclusive") ELSE <<>>)

Info_validate(i, path) ==
    (IF i.Title = "" THEN addError(path \o ".title", "required field is missing") ELSE <<>>)
    \o (IF i.Version = ""
        THEN addError(path \o ".version", "required field is missing") ELSE <<>>)
    \o (IF Len(i.License) > 0
        THEN License_validate(i.License[1], path \o ".license") ELSE <<>>)

Tag_validate(t, path) ==
    IF t.Name = "" THEN addError(path \o ".name", "required field is missing") ELSE <<>>

\* The four flows in the order OAuthFlows.validate takes them, each with
\* the URLs it requires.
flowsOf(f) ==
    << [name |-> "implicit", flow |-> f.Implicit, urls |-> <<"authorizationUrl">>],
       [name |-> "password", flow |-> f.Password, urls |-> <<"tokenUrl">>],
       [name |-> "clientCredentials", flow |-> f.ClientCredentials, urls |-> <<"tokenUrl">>],
       [name |-> "authorizationCode", flow |-> f.AuthorizationCode,
        urls |-> <<"authorizationUrl", "tokenUrl">>] >>

OAuthFlows_validate(f, path) ==
    LET urlOf(flow, url) ==
            IF url = "authorizationUrl" THEN flow.AuthorizationUrl ELSE flow.TokenUrl
        checked(x) ==
            IF Len(x.flow) = 0 THEN <<>>
            ELSE concat([i \in DOMAIN x.urls |->
                            IF urlOf(x.flow[1], x.urls[i]) = ""
                            THEN addError(path \o "." \o x.name \o "." \o x.urls[i],
                                          "required for " \o x.name \o " flow")
                            ELSE <<>>])
                 \o (IF Len(x.flow[1].Scopes) = 0
                     THEN addError(path \o "." \o x.name \o ".scopes",
                                   "required field is missing")
                     ELSE <<>>)
    IN (IF \A i \in DOMAIN flowsOf(f) : Len(flowsOf(f)[i].flow) = 0
        THEN addError(path, "at least one OAuth flow must be defined") ELSE <<>>)
       \o concat([i \in DOMAIN flowsOf(f) |-> checked(flowsOf(f)[i])])

securitySchemeTypes == {"apiKey", "http", "mutualTLS", "oauth2", "openIdConnect"}

SecurityScheme_validate(ss, path) ==
    IF IsReference(ss) THEN <<>>
    ELSE (IF ss.Type = "" THEN addError(path \o ".type", "required field is missing")
          ELSE IF ss.Type \notin securitySchemeTypes
          THEN addError(path \o ".type",
                        "must be one of: apiKey, http, mutualTLS, oauth2, openIdConnect; got "
                            \o ss.Type)
          ELSE <<>>)
         \o (CASE ss.Type = "apiKey" ->
                      (IF ss.Name = ""
                       THEN addError(path \o ".name", "required for apiKey type") ELSE <<>>)
                      \o (IF ss.In = ""
                          THEN addError(path \o ".in", "required for apiKey type")
                          ELSE IF ss.In \notin {"query", "header", "cookie"}
                          THEN addError(path \o ".in", "must be one of: query, header, cookie")
                          ELSE <<>>)
               [] ss.Type = "http" ->
                      IF ss.Scheme = ""
                      THEN addError(path \o ".scheme", "required for http type") ELSE <<>>
               [] ss.Type = "oauth2" ->
                      IF Len(ss.Flows) = 0
                      THEN addError(path \o ".flows", "required for oauth2 type")
                      ELSE OAuthFlows_validate(ss.Flows[1], path \o ".flows")
               [] ss.Type = "openIdConnect" ->
                      IF ss.OpenIdConnectUrl = ""
                      THEN addError(path \o ".openIdConnectUrl",
                                    "required for openIdConnect type")
                      ELSE <<>>
               [] OTHER -> <<>>)

\* One registry of Components.validate: the name of each entry is checked,
\* then the entry is validated.
registry(m, path, ord, entry(_, _)) ==
    rangeMap(m, ord, LAMBDA name, x :
                (IF ~namePattern(name)
                 THEN addError(atKey(path, name), "component name contains invalid characters")
                 ELSE <<>>)
                \o (IF Len(x) > 0 THEN entry(x[1], atKey(path, name)) ELSE <<>>))

Components_validate(c, path, ord) ==
    registry(c.Schemas, path \o ".schemas", ord,
             LAMBDA x, where : Schema_validate(x, where, ord))
    \o registry(c.Responses, path \o ".responses", ord,
                LAMBDA x, where : Response_validate(x, where, ord))
    \o registry(c.Parameters, path \o ".parameters", ord,
                LAMBDA x, where : Parameter_validate(x, where, ord))
    \o registry(c.RequestBodies, path \o ".requestBodies", ord,
                LAMBDA x, where : RequestBody_validate(x, where, ord))
    \o registry(c.Headers, path \o ".headers", ord,
                LAMBDA x, where : Header_validate(x, where))
    \o registry(c.SecuritySchemes, path \o ".securitySchemes", ord,
                LAMBDA x, where : SecurityScheme_validate(x, where))
    \o registry(c.Links, path \o ".links", ord,
                LAMBDA x, where : Link_validate(x, where))
    \o registry(c.Callbacks, path \o ".callbacks", ord,
                LAMBDA x, where : Callback_validate(x, where, ord))
    \o registry(c.PathItems, path \o ".pathItems", ord,
                LAMBDA x, where : PathItem_validate(x, where, ord))

\* OpenAPI.Validate on a document that is not nil, in the six parts it
\* takes in turn: the root and info, paths, webhooks, servers, components,
\* tags.
validateSection(doc, ord, k) ==
    CASE k = 1 ->
             (IF doc.OpenAPI = "" THEN addError("openapi", "required field is missing")
              ELSE IF ~HasPrefix31(doc.OpenAPI)
              THEN addError("openapi", "expected 3.1.x version, got " \o doc.OpenAPI)
              ELSE <<>>)
             \o (IF Len(doc.Info) = 0 THEN addError("info", "required field is missing")
                 ELSE Info_validate(doc.Info[1], "info"))
             \o (IF ~(Len(doc.Paths) > 0 /\ DOMAIN doc.Paths[1].Paths # {})
                       /\ DOMAIN doc.Webhooks = {} /\ Len(doc.Components) = 0
                 THEN addError("", "must have at least one of: paths, webhooks, or components")
                 ELSE <<>>)
      [] k = 2 ->
             IF Len(doc.Paths) > 0 THEN Paths_validate(doc.Paths[1], "paths", ord) ELSE <<>>
      [] k = 3 ->
             rangeMap(doc.Webhooks, ord, LAMBDA name, pathItem :
                         IF Len(pathItem) > 0
                         THEN PathItem_validate(pathItem[1], atKey("webhooks", name), ord)
                         ELSE <<>>)
      [] k = 4 ->
             rangeSlice(doc.Servers, LAMBDA i, server :
                           IF Len(server) > 0
                           THEN Server_validate(server[1], atIndex("servers", i), ord)
                           ELSE <<>>)
      [] k = 5 ->
             IF Len(doc.Components) > 0
             THEN Components_validate(doc.Components[1], "components", ord) ELSE <<>>
      [] k = 6 ->
             rangeSlice(doc.Tags, LAMBDA i, tag :
                           IF Len(tag) > 0 THEN Tag_validate(tag[1], atIndex("tags", i))
                           ELSE <<>>)

validateDocument(doc, ord) == concat([k \in 1..6 |-> validateSection(doc, ord, k)])

\* A Validate that returns an empty result for a nil document.
ValidateQuietOnNil(o, ord) ==
    IF Len(o) = 0 THEN <<>> ELSE validateDocument(o[1], ord)

\* OpenAPI.Validate: o is the pointer (<<>> is nil); the Errors of the
\* result it returns.
Validate(o, ord) ==
    IF Len(o) = 0 THEN addError("", "OpenAPI document is nil")
    ELSE validateDocument(o[1], ord)

(***************************************************************************)
(* The referenceable nodes under their callers: a node is declared and     *)
(* decoded (json.Unmarshal into a fresh value), decoded into again, built  *)
(* by New<Kind>Reference, written through its exported fields, and encoded *)
(* (json.Marshal).                                                         *)
(***************************************************************************)
MaxSteps == 2

\* The most keys an object decoded into an instance already in use carries.
MaxIntoKeys == 1

RefKinds ==
    {"Parameter", "Header", "Response", "RequestBody", "Example", "Link",
     "SecurityScheme", "Callback"}

RefStrings == {"", "#/c/x"}

\* One inline keyword of each kind, with a value of its type.
InlineKey(kind) ==
    CASE kind = "Parameter" -> "name"
      [] kind = "Header" -> "style"
      [] kind = "Response" -> "headers"
      [] kind = "RequestBody" -> "required"
      [] kind = "Example" -> "externalValue"
      [] kind = "Link" -> "operationId"
      [] kind = "SecurityScheme" -> "type"
      [] kind = "Callback" -> "/cb"

InlineValue(kind) ==
    CASE kind = "Parameter" -> JStr("id")
      [] kind = "Header" -> JStr("simple")
      [] kind = "Response" -> JObj("h" :> JObj(EmptyMap, "src"), "src")
      [] kind = "RequestBody" -> JBool(TRUE)
      [] kind = "Example" -> JStr("http://e")
      [] kind = "Link" -> JStr("op")
      [] kind = "SecurityScheme" -> JStr("http")
      [] kind = "Callback" -> JObj(EmptyMap, "src")

\* The values each key of an input object may carry.
RefInputValues(kind, key) ==
    CASE key = "$ref" -> {JStr(r) : r \in RefStrings}
      [] key = "summary" -> {JStr("sum"), JNum("1")}
      [] key = "description" -> {JStr("desc")}
      [] key = "x-foo" -> {JStr("bar"), JNum("1e400")}
      [] OTHER -> {InlineValue(kind)}

RefInputKeys(kind) == {"$ref", "summary", "description", "x-foo", InlineKey(kind)}

Absent == [t |-> "absent"]
Opt(kind, key) == {Absent} \cup RefInputValues(kind, key)

\* The object with the keys the choice c leaves present.
ObjectOf(c) == JObj([key \in {k \in DOMAIN c : c[k].t # "absent"} |-> c[key]], "src")

RefInputs(kind) ==
    {ObjectOf("$ref" :> a @@ "summary" :> b @@ "description" :> c
                  @@ "x-foo" :> d @@ InlineKey(kind) :> e) :
        a \in Opt(kind, "$ref"), b \in Opt(kind, "summary"),
        c \in Opt(kind, "description"), d \in Opt(kind, "x-foo"),
        e \in Opt(kind, InlineKey(kind))}

IntoInputs(kind) == {j \in RefInputs(kind) : Cardinality(DOMAIN RawOf(j)) <= MaxIntoKeys}

\* json.Unmarshal(j, &x) on a value x of a type with a custom decoder.
Unmarshal(kind, x, j, ord) ==
    CASE kind = "Callback" -> Callback_UnmarshalJSON(x, j, ord)
      [] kind = "Paths" -> Paths_UnmarshalJSON(x, j, ord)
      [] kind = "Responses" -> Responses_UnmarshalJSON(x, j, ord)
      [] OTHER -> decode(TCustom(kind), x, j)

KeyOrders(kind, j) ==
    IF kind \in {"Callback", "Paths", "Responses"} THEN Orders(DOMAIN RawOf(j)) ELSE {<<>>}

Called(op, err, fresh, n) == [op |-> op, err |-> err, fresh |-> fresh, n |-> n, marshalled |-> FALSE]

InitRef ==
    /\ node = [kind |-> "Parameter", v |-> Zero(TCustom("Parameter"))]
    /\ wire = JNull
    /\ src = JNull
    /\ last = Called("init", FALSE, TRUE, 0)
    /\ result = <<>>
    /\ planted = {}
    /\ calls = <<>>

\* var x Kind; err := json.Unmarshal(j, &x)
UnmarshalFresh ==
    /\ last.n = 0
    /\ UNCHANGED <<result, planted, calls>>
    /\ \E kind \in RefKinds : \E j \in RefInputs(kind) : \E ord \in KeyOrders(kind, j) :
        LET returned(r) ==
                /\ node' = [kind |-> kind, v |-> r.v]
                /\ wire' = JNull
                /\ src' = j
                /\ last' = Called("Unmarshal", r.err, TRUE, 1)
        IN returned(Unmarshal(kind, Zero(TCustom(kind)), j, ord))

\* err := json.Unmarshal(j, &x) on the instance at hand
UnmarshalInto ==
    /\ last.n < MaxSteps
    /\ UNCHANGED <<result, planted, calls>>
    /\ \E j \in IntoInputs(node.kind) : \E ord \in KeyOrders(node.kind, j) :
        LET returned(r) ==
                /\ node' = [node EXCEPT !.v = r.v]
                /\ wire' = JNull
                /\ src' = j
                /\ last' = Called("Unmarshal", r.err, FALSE, last.n + 1)
        IN returned(Unmarshal(node.kind, node.v, j, ord))

\* x := New<Kind>Reference(ref)
NewRef ==
    /\ last.n = 0
    /\ UNCHANGED <<result, planted, calls>>
    /\ \E kind \in RefKinds : \E ref \in RefStrings :
        /\ node' = [kind |-> kind, v |-> NewReference(kind, ref)]
        /\ wire' = JNull
        /\ src' = JNull
        /\ last' = Called("New", FALSE, TRUE, 1)

\* x.Ref = ref (Ref is an exported field)
SetRef ==
    /\ last.n < MaxSteps
    /\ UNCHANGED <<result, planted, calls>>
    /\ \E ref \in RefStrings :
        /\ node' = [node EXCEPT !.v.Ref = ref]
        /\ wire' = JNull
        /\ src' = JNull
        /\ last' = Called("SetRef", FALSE, FALSE, last.n + 1)

\* x.Extensions = map[string]any{key: "v"} (Extensions is an exported field)
SetExtensions ==
    /\ last.n < MaxSteps
    /\ UNCHANGED <<result, planted, calls>>
    /\ \E key \in {"x-foo", "summary"} :
        /\ node' = [node EXCEPT !.v.Extensions = key :> [g |-> "string", v |-> "v"]]
        /\ wire' = JNull
        /\ src' = JNull
        /\ last' = Called("SetExtensions", FALSE, FALSE, last.n + 1)

\* data, _ := json.Marshal(x)
Marshal ==
    /\ ~last.marshalled
    /\ UNCHANGED <<result, planted, calls>>
    /\ wire' = encode(TCustom(node.kind), node.v)
    /\ last' = [last EXCEPT !.marshalled = TRUE]
    /\ UNCHANGED <<node, src>>

NextRef == UnmarshalFresh \/ UnmarshalInto \/ NewRef \/ SetRef \/ SetExtensions \/ Marshal

SpecRef == InitRef /\ [][NextRef]_vars

(***************************************************************************)
(* Schema under its callers: made by NewBooleanSchema, decoded into a      *)
(* fresh value, decoded into again, encoded.                               *)
(***************************************************************************)
\* The values each keyword of an input schema object may carry.
SchemaInputValues(key) ==
    CASE key = "type" -> {JStr("string"), JArr(<<JStr("string"), JStr("null")>>), JArr(<<>>)}
      [] key = "minimum" -> {JNum("1"), JNum("1.0")}
      [] key = "items" -> {JBool(TRUE), JObj("type" :> JStr("string"), "src")}
      [] key = "x-foo" -> {JStr("bar")}

SchemaOpt(key) == {Absent} \cup SchemaInputValues(key)

\* The input texts: true, false, null, and the objects over the keywords.
SchemaInputs ==
    {JBool(TRUE), JBool(FALSE), JNull}
        \cup {ObjectOf("type" :> a @@ "minimum" :> b @@ "items" :> c @@ "x-foo" :> d) :
                 a \in SchemaOpt("type"), b \in SchemaOpt("minimum"),
                 c \in SchemaOpt("items"), d \in SchemaOpt("x-foo")}

SchemaIntoInputs ==
    {j \in SchemaInputs : j.t = "object" => Cardinality(DOMAIN j.o) <= MaxIntoKeys}

InitSchema ==
    /\ node = [kind |-> "Schema", v |-> Zero(TCustom("Schema"))]
    /\ wire = JNull
    /\ src = JNull
    /\ last = Called("init", FALSE, TRUE, 0)
    /\ result = <<>>
    /\ planted = {}
    /\ calls = <<>>

\* s := NewBooleanSchema(value)
SchemaNew ==
    /\ last.n = 0
    /\ UNCHANGED <<result, planted, calls>>
    /\ \E value \in BOOLEAN :
        /\ node' = [node EXCEPT !.v = NewBooleanSchema(value)]
        /\ wire' = JNull
        /\ src' = JNull
        /\ last' = Called("New", FALSE, TRUE, 1)

\* var s Schema; err := json.Unmarshal(j, &s)
SchemaUnmarshalFresh ==
    /\ last.n = 0
    /\ UNCHANGED <<result, planted, calls>>
    /\ \E j \in SchemaInputs :
        LET returned(r) ==
                /\ node' = [node EXCEPT !.v = r.v]
                /\ wire' = JNull
                /\ src' = j
                /\ last' = Called("Unmarshal", r.err, TRUE, 1)
        IN returned(decodeNew(TCustom("Schema"), j))

\* err := json.Unmarshal(j, &s) on the instance at hand
SchemaUnmarshalInto ==
    /\ last.n \in 1..(MaxSteps - 1)
    /\ UNCHANGED <<result, planted, calls>>
    /\ \E j \in SchemaIntoInputs :
        LET returned(r) ==
                /\ node' = [node EXCEPT !.v = r.v]
                /\ wire' = JNull
                /\ src' = j
                /\ last' = Called("Unmarshal", r.err, FALSE, last.n + 1)
        IN returned(decode(TCustom("Schema"), node.v, j))

NextSchema == SchemaNew \/ SchemaUnmarshalFresh \/ SchemaUnmarshalInto \/ Marshal

SpecSchema == InitSchema /\ [][NextSchema]_vars

(***************************************************************************)
(* StringOrStringArray under its callers: decoded into a fresh value,      *)
(* decoded into again, encoded, and asked whether it contains a type name. *)
(***************************************************************************)
TypeNames == {"string", "null"}
QueryNames == TypeNames \cup {"integer"}

\* The input texts: a name or the empty string, the arrays of up to two
\* names, null, and a number (which neither form accepts).
TypeInputs ==
    {JStr(t) : t \in TypeNames \cup {""}}
        \cup {JArr(<<>>), JNull, JNum("1")}
        \cup {JArr(<< JStr(t) >>) : t \in TypeNames}
        \cup {JArr(<< JStr(t), JStr(u) >>) : t \in TypeNames, u \in TypeNames}

InitType ==
    /\ node = [kind |-> "StringOrStringArray", v |-> Zero(TCustom("StringOrStringArray"))]
    /\ wire = JNull
    /\ src = JNull
    /\ last = Called("init", FALSE, TRUE, 0)
    /\ result = <<>>
    /\ planted = {}
    /\ calls = <<>>

\* var t StringOrStringArray; err := json.Unmarshal(j, &t)
TypeUnmarshalFresh ==
    /\ last.n = 0
    /\ UNCHANGED <<result, planted, calls>>
    /\ \E j \in TypeInputs :
        LET returned(r) ==
                /\ node' = [node EXCEPT !.v = r.v]
                /\ wire' = JNull
                /\ src' = j
                /\ last' = Called("Unmarshal", r.err, TRUE, 1)
        IN returned(decodeNew(TCustom("StringOrStringArray"), j))

\* err := json.Unmarshal(j, &t) on the value at hand
TypeUnmarshalInto ==
    /\ last.n \in 1..(MaxSteps - 1)
    /\ last.op = "Unmarshal"
    /\ UNCHANGED <<result, planted, calls>>
    /\ \E j \in TypeInputs :
        LET returned(r) ==
                /\ node' = [node EXCEPT !.v = r.v]
                /\ wire' = JNull
                /\ src' = j
                /\ last' = Called("Unmarshal", r.err, FALSE, last.n + 1)
        IN returned(decode(TCustom("StringOrStringArray"), node.v, j))

\* answer := t.Contains(typ)
TypeContains ==
    /\ last.op = "Unmarshal"
    /\ ~last.err
    /\ \E typ \in QueryNames :
           result' = [typ |-> typ, answer |-> StringOrStringArray_Contains(<< node.v >>, typ)]
    /\ last' = Called("Contains", FALSE, last.fresh, last.n + 1)
    /\ UNCHANGED <<node, wire, src, planted, calls>>

NextType == TypeUnmarshalFresh \/ TypeUnmarshalInto \/ TypeContains \/ Marshal

SpecType == InitType /\ [][NextType]_vars

(***************************************************************************)
(* Validate under its callers: a document is built in memory, its owner    *)
(* writes violations into nodes of it, one node at a time, and Validate is *)
(* called on it.                                                           *)
(***************************************************************************)
\* The most nodes of one document that carry a violation.
MaxViolations == 3

New(n) == Zero(TCustom(n))

StringType(typ) == << [String |-> typ, Array |-> <<>>] >>

\* A schema without a violation, and one with minimum > maximum.
GoodSchema == [New("Schema") EXCEPT !.Type = StringType("string")]
BadSchema == [GoodSchema EXCEPT !.Type = StringType("number"), !.Minimum = <<10>>, !.Maximum = <<5>>]

\* The applicator fields of Schema, by the Go type that holds the
\* sub-schemas: *Schema, []*Schema, map[string]*Schema.
PointerApplicators ==
    {"Not", "If", "Then", "Else", "Items", "Contains", "AdditionalProperties",
     "PropertyNames", "UnevaluatedItems", "UnevaluatedProperties"}
SliceApplicators == {"AllOf", "AnyOf", "OneOf", "PrefixItems"}
MapApplicators == {"DependentSchemas", "Properties", "PatternProperties"}
Applicators == PointerApplicators \cup SliceApplicators \cup MapApplicators

\* The value of an applicator field that holds the one sub-schema sub.
Holding(field, sub) ==
    IF field \in SliceApplicators THEN << <<sub>> >>
    ELSE IF field \in MapApplicators THEN "k" :> <<sub>>
    ELSE <<sub>>

\* A schema with a valid sub-schema under every applicator.
BaseSchema ==
    [f \in DOMAIN New("Schema") |->
        IF f \in Applicators THEN Holding(f, GoodSchema) ELSE New("Schema")[f]]

ObjectSchema ==
    [New("Schema") EXCEPT !.Type = StringType("object"),
                          !.Required = <<"existing">>,
                          !.Properties = "existing" :> <<GoodSchema>>]

BaseMediaType == [New("MediaType") EXCEPT !.Schema = <<GoodSchema>>]

PathParameter ==
    [New("Parameter") EXCEPT !.Name = "id", !.In = "path", !.Required = TRUE,
                             !.Style = "simple", !.Schema = <<GoodSchema>>]

ContentParameter ==
    [New("Parameter") EXCEPT !.Name = "q", !.In = "query",
                             !.Content = "c" :> <<BaseMediaType>>]

BaseResponse ==
    [New("Response") EXCEPT
        !.Description = "ok",
        !.Headers = "h" :> << [New("Header") EXCEPT !.Schema = <<GoodSchema>>] >>,
        !.Content = "c" :> <<BaseMediaType>>]

BaseOperation ==
    [New("Operation") EXCEPT
        !.Responses = << [New("Responses") EXCEPT !.StatusCode = "200" :> <<BaseResponse>>] >>]

BasePathItem ==
    [New("PathItem") EXCEPT !.Parameters = << <<PathParameter>>, <<ContentParameter>> >>,
                            !.Get = <<BaseOperation>>]

\* A document Validate has nothing to say about.
BaseDocument ==
    [New("OpenAPI") EXCEPT
        !.OpenAPI = "3.1.0",
        !.Info = << [New("Info") EXCEPT !.Title = "t", !.Version = "1"] >>,
        !.Servers = << << [New("Server") EXCEPT !.URL = "u"] >> >>,
        !.Paths = << [New("Paths") EXCEPT !.Paths = "/pets" :> <<BasePathItem>>] >>,
        !.Components =
            << [New("Components") EXCEPT
                   !.Schemas = ("S" :> <<BaseSchema>>) @@ ("T" :> <<GoodSchema>>)
                                   @@ ("U" :> <<ObjectSchema>>)] >>,
        !.Tags = << << [New("Tag") EXCEPT !.Name = "t"] >> >>]

\* The nodes a violation is written into: the sub-schema under each
\* applicator of components.schemas[S], and nine nodes elsewhere.
OtherSites ==
    {"style", "bound", "required", "title", "tag", "server",
     "headerSchema", "parameterContent", "responseContent"}
ViolationSites == Applicators \cup OtherSites

\* The document after its owner has written the violation of a site.
Plant(doc, site) ==
    CASE site \in Applicators ->
             [doc EXCEPT !.Components[1].Schemas["S"][1][site] = Holding(site, BadSchema)]
      [] site = "style" ->
             [doc EXCEPT !.Paths[1].Paths["/pets"][1].Parameters[1][1].Style = "form"]
      [] site = "bound" ->
             [doc EXCEPT !.Components[1].Schemas["T"] = <<BadSchema>>]
      [] site = "required" ->
             [doc EXCEPT !.Components[1].Schemas["U"][1].Required = <<"missing">>]
      [] site = "title" -> [doc EXCEPT !.Info[1].Title = ""]
      [] site = "tag" -> [doc EXCEPT !.Tags[1][1].Name = ""]
      [] site = "server" -> [doc EXCEPT !.Servers[1][1].URL = ""]
      [] site = "headerSchema" ->
             [doc EXCEPT !.Paths[1].Paths["/pets"][1].Get[1].Responses[1]
                              .StatusCode["200"][1].Headers["h"][1].Schema = <<BadSchema>>]
      [] site = "parameterContent" ->
             [doc EXCEPT !.Paths[1].Paths["/pets"][1].Parameters[2][1]
                              .Content["c"][1].Schema = <<BadSchema>>]
      [] site = "responseContent" ->
             [doc EXCEPT !.Paths[1].Paths["/pets"][1].Get[1].Responses[1]
                              .StatusCode["200"][1].Content["c"][1].Schema = <<BadSchema>>]

\* The keys of the maps of the document that hold several entries.
RangedKeys == {"S", "T", "U"}

InitValidate ==
    /\ node = [kind |-> "OpenAPI", v |-> BaseDocument]
    /\ wire = JNull
    /\ src = JNull
    /\ last = Called("New", FALSE, TRUE, 0)
    /\ result = <<>>
    /\ planted = {}
    /\ calls = <<>>

\* The owner writes a violation into one more node of the document.
PlantViolation ==
    /\ last.op # "Validate"
    /\ Cardinality(planted) < MaxViolations
    /\ \E site \in ViolationSites \ planted :
        /\ node' = [node EXCEPT !.v = Plant(node.v, site)]
        /\ planted' = planted \cup {site}
        /\ UNCHANGED calls
    /\ last' = Called("Set", FALSE, FALSE, last.n + 1)
    /\ UNCHANGED <<wire, src, result>>

\* A Validate that also rewrites the version string of the document it reads.
CallValidateNormalising ==
    /\ last.op # "Validate"
    /\ \E ord \in Orders(RangedKeys) : result' = Validate(<<node.v>>, ord)
    /\ node' = [node EXCEPT !.v.OpenAPI = "3.1"]
    /\ last' = Called("Validate", FALSE, FALSE, last.n + 1)
    /\ UNCHANGED <<wire, src, planted, calls>>

\* result := doc.Validate()
CallValidate ==
    /\ last.op # "Validate"
    /\ \E ord \in Orders(RangedKeys) : result' = Validate(<<node.v>>, ord)
    /\ last' = Called("Validate", FALSE, FALSE, last.n + 1)
    /\ UNCHANGED <<node, wire, src, planted, calls>>

NextValidate == PlantViolation \/ CallValidate

SpecValidate == InitValidate /\ [][NextValidate]_vars

(***************************************************************************)
(* Validate on a document whose owner writes the location and the style of *)
(* the first parameter of the path item /pets.                             *)
(***************************************************************************)
ParameterIns == {"", "query", "header", "path", "cookie", "body"}
ParameterStyles ==
    {"", "matrix", "label", "simple", "form", "spaceDelimited", "pipeDelimited",
     "deepObject", "tabDelimited"}

TheParameter == node.v.Paths[1].Paths["/pets"][1].Parameters[1][1]

InitParameter == InitValidate

\* doc.Paths.Paths["/pets"].Parameters[0].In = in
SetParameterIn ==
    /\ \E in \in ParameterIns \ {TheParameter.In} :
           node' = [node EXCEPT !.v.Paths[1].Paths["/pets"][1].Parameters[1][1].In = in]
    /\ last' = Called("Set", FALSE, FALSE, 1)
    /\ UNCHANGED <<wire, src, result, planted, calls>>

\* doc.Paths.Paths["/pets"].Parameters[0].Style = style
SetParameterStyle ==
    /\ \E style \in ParameterStyles \ {TheParameter.Style} :
           node' = [node EXCEPT !.v.Paths[1].Paths["/pets"][1].Parameters[1][1].Style = style]
    /\ last' = Called("Set", FALSE, FALSE, 1)
    /\ UNCHANGED <<wire, src, result, planted, calls>>

NextParameter == SetParameterIn \/ SetParameterStyle \/ CallValidate

SpecParameter == InitParameter /\ [][NextParameter]_vars

(***************************************************************************)
(* Validate on a document whose owner writes the keywords of the schema    *)
(* components.schemas[T]: its paired bounds, its required list and its     *)
(* properties, its type.                                                   *)
(***************************************************************************)
\* A valid document with the one schema T.
SchemaDocument ==
    [New("OpenAPI") EXCEPT
        !.OpenAPI = "3.1.0",
        !.Info = << [New("Info") EXCEPT !.Title = "t", !.Version = "1"] >>,
        !.Components = << [New("Components") EXCEPT !.Schemas = "T" :> <<GoodSchema>>] >>]

TheSchema == node.v.Components[1].Schemas["T"][1]

InitSchemaDocument ==
    /\ node = [kind |-> "OpenAPI", v |-> SchemaDocument]
    /\ wire = JNull
    /\ src = JNull
    /\ last = Called("New", FALSE, TRUE, 0)
    /\ result = <<>>
    /\ planted = {}
    /\ calls = <<>>

\* The bound fields of Schema, and how many of them the owner sets.
MaxBoundsSet == 4
BoundFields ==
    {"Minimum", "Maximum", "ExclusiveMinimum", "ExclusiveMaximum", "MinLength", "MaxLength",
     "MinItems", "MaxItems", "MinProperties", "MaxProperties", "MinContains", "MaxContains"}
BoundValues == {<<>>, <<5>>, <<10>>}
BoundsSet(s) == {f \in BoundFields : Len(s[f]) > 0}

\* doc.Components.Schemas["T"].<field> = value (a pointer to 5 or 10, or nil)
SetBound ==
    /\ last.op # "Validate"
    /\ \E f \in BoundFields : \E value \in BoundValues \ {TheSchema[f]} :
        /\ Cardinality(BoundsSet([TheSchema EXCEPT ![f] = value])) <= MaxBoundsSet
        /\ node' = [node EXCEPT !.v.Components[1].Schemas["T"][1][f] = value]
    /\ last' = Called("Set", FALSE, FALSE, 1)
    /\ UNCHANGED <<wire, src, result, planted, calls>>

NextBounds == SetBound \/ CallValidate

SpecBounds == InitSchemaDocument /\ [][NextBounds]_vars

(***************************************************************************)
(* Validate on a document whose owner puts inline and reference-shaped     *)
(* nodes side by side: the two parameters of GET /pets, and the schemas T  *)
(* and U of components.                                                    *)
(***************************************************************************)
SiblingsDocument ==
    [SchemaDocument EXCEPT
        !.Paths = << [New("Paths") EXCEPT !.Paths = "/pets" :>
                        << [New("PathItem") EXCEPT !.Get =
                              << [BaseOperation EXCEPT !.Parameters =
                                     << <<PathParameter>>, <<PathParameter>> >>] >>] >>] >>,
        !.Components[1].Schemas = ("T" :> <<GoodSchema>>) @@ ("U" :> <<GoodSchema>>)]

SiblingParameters == node.v.Paths[1].Paths["/pets"][1].Get[1].Parameters
SiblingSchemas == node.v.Components[1].Schemas

\* The nodes the owner puts: a valid parameter, one with a style its
\* location does not allow, one made by NewParameterReference; a valid
\* schema, one with minimum > maximum, and the latter with a $ref.
ParameterNodes ==
    {PathParameter, [PathParameter EXCEPT !.Style = "form"], NewReference("Parameter", "#/c/x")}
SchemaNodes == {GoodSchema, BadSchema, [BadSchema EXCEPT !.Ref = "#/c/y"]}

InitSiblings ==
    /\ node = [kind |-> "OpenAPI", v |-> SiblingsDocument]
    /\ wire = JNull
    /\ src = JNull
    /\ last = Called("New", FALSE, TRUE, 0)
    /\ result = <<>>
    /\ planted = {}
    /\ calls = <<>>

\* op.Parameters[i] = p
PutParameter ==
    /\ last.op # "Validate"
    /\ \E i \in DOMAIN SiblingParameters : \E p \in ParameterNodes \ {SiblingParameters[i][1]} :
           node' = [node EXCEPT !.v.Paths[1].Paths["/pets"][1].Get[1].Parameters[i] = <<p>>]
    /\ last' = Called("Set", FALSE, FALSE, 1)
    /\ UNCHANGED <<wire, src, result, planted, calls>>

\* op.Parameters[i].Ref = ref (Ref is an exported field)
WriteParameterRef ==
    /\ last.op # "Validate"
    /\ \E i \in DOMAIN SiblingParameters : \E ref \in {"", "#/c/x"} \ {SiblingParameters[i][1].Ref} :
           node' = [node EXCEPT !.v.Paths[1].Paths["/pets"][1].Get[1].Parameters[i][1].Ref = ref]
    /\ last' = Called("SetRef", FALSE, FALSE, 1)
    /\ UNCHANGED <<wire, src, result, planted, calls>>

\* doc.Components.Schemas[key] = s
PutSchema ==
    /\ last.op # "Validate"
    /\ \E key \in DOMAIN SiblingSchemas : \E s \in SchemaNodes \ {SiblingSchemas[key][1]} :
           node' = [node EXCEPT !.v.Components[1].Schemas[key] = <<s>>]
    /\ last' = Called("Set", FALSE, FALSE, 1)
    /\ UNCHANGED <<wire, src, result, planted, calls>>

NextSiblings == PutParameter \/ WriteParameterRef \/ PutSchema \/ CallValidate

SpecSiblings == InitSiblings /\ [][NextSiblings]_vars

(***************************************************************************)
(* Validate on a document whose owner adds entries to the registries of    *)
(* components, under keys that match the name pattern or do not.           *)
(***************************************************************************)
MaxEntries == 2

\* The registries, by the Go field of Components that holds them.
Registries ==
    {"Schemas", "Responses", "Parameters", "Examples", "RequestBodies", "Headers",
     "SecuritySchemes", "Links", "Callbacks", "PathItems"}
RegistryKeys == {"n", "a.b-c_1", "bad name"}

\* A node of the reg's kind Validate has nothing to say about.
EntryOf(reg) ==
    CASE reg = "Schemas" -> GoodSchema
      [] reg = "Responses" -> BaseResponse
      [] reg = "Parameters" -> PathParameter
      [] reg = "Examples" -> New("Example")
      [] reg = "RequestBodies" ->
             [New("RequestBody") EXCEPT !.Content = "c" :> <<BaseMediaType>>]
      [] reg = "Headers" -> [New("Header") EXCEPT !.Schema = <<GoodSchema>>]
      [] reg = "SecuritySchemes" -> [New("SecurityScheme") EXCEPT !.Type = "mutualTLS"]
      [] reg = "Links" -> New("Link")
      [] reg = "Callbacks" -> New("Callback")
      [] reg = "PathItems" -> New("PathItem")

TheComponents == node.v.Components[1]
EntriesAdded ==
    {<<reg, key>> \in Registries \X RegistryKeys : key \in DOMAIN TheComponents[reg]}

\* doc.Components.<Registry>[key] = &entry
PutEntry ==
    /\ last.op # "Validate"
    /\ Cardinality(EntriesAdded) < MaxEntries
    /\ \E reg \in Registries : \E key \in RegistryKeys \ DOMAIN TheComponents[reg] :
           node' = [node EXCEPT !.v.Components[1][reg] =
                                    (key :> << EntryOf(reg) >>) @@ @]
    /\ last' = Called("Set", FALSE, FALSE, 1)
    /\ UNCHANGED <<wire, src, result, planted, calls>>

NextRegistries == PutEntry \/ CallValidate

SpecRegistries == InitSchemaDocument /\ [][NextRegistries]_vars

(***************************************************************************)
(* The round trip of a document: a text is decoded into a fresh OpenAPI    *)
(* value, the value is encoded, and the encoding is decoded into a fresh   *)
(* value and encoded again.                                                *)
(***************************************************************************)
\* The registry of components that holds the nodes of a kind.
RegistryOf(kind) ==
    CASE kind = "Schema" -> "schemas"
      [] kind = "Response" -> "responses"
      [] kind = "Parameter" -> "parameters"
      [] kind = "Example" -> "examples"
      [] kind = "RequestBody" -> "requestBodies"
      [] kind = "Header" -> "headers"
      [] kind = "SecurityScheme" -> "securitySchemes"
      [] kind = "Link" -> "links"
      [] kind = "Callback" -> "callbacks"

\* A document with the members given next to openapi and info.
DocumentWith(members) ==
    JObj(("openapi" :> JStr("3.1.0"))
             @@ ("info" :> JObj(("title" :> JStr("t")) @@ ("version" :> JStr("1.0")), "src"))
             @@ members, "src")

\* A document with one node of a kind, of text j, in its registry.
DocumentAround(kind, j) ==
    DocumentWith("components" :> JObj(RegistryOf(kind) :> JObj("n" :> j, "src"), "src"))

\* The texts of a responses object: a status code, default, an extension
\* and a key that is none of these, each present or not.
ResponsesInputs ==
    {ObjectOf("200" :> a @@ "default" :> b @@ "x-foo" :> c @@ "bogus" :> d) :
        a \in {Absent, JObj("description" :> JStr("ok"), "src")},
        b \in {Absent, JNull, JObj(EmptyMap, "src")},
        c \in {Absent, JStr("bar")},
        d \in {Absent, JStr("dropped")}}

\* The texts of a paths object, likewise.
PathsInputs ==
    {ObjectOf("/pets" :> a @@ "x-foo" :> b @@ "bogus" :> c) :
        a \in {Absent, JNull, JObj(EmptyMap, "src")}
                 \cup {JObj("get" :> JObj("responses" :> r, "src"), "src") :
                          r \in ResponsesInputs},
        b \in {Absent, JNum("1.0")},
        c \in {Absent, JStr("dropped")}}

Documents ==
    {JNull, DocumentWith(EmptyMap), DocumentWith("x-foo" :> JNum("1.0"))}
        \cup UNION {{DocumentAround(kind, j) : j \in RefInputs(kind)} : kind \in RefKinds}
        \cup {DocumentAround("Schema", j) : j \in SchemaInputs}
        \cup {DocumentWith("paths" :> j) : j \in PathsInputs}

InitRoundTrip ==
    /\ node = [kind |-> "OpenAPI", v |-> Zero(TCustom("OpenAPI"))]
    /\ wire = JNull
    /\ src = JNull
    /\ last = Called("init", FALSE, TRUE, 0)
    /\ result = <<>>
    /\ planted = {}
    /\ calls = <<>>

\* var doc OpenAPI; err := json.Unmarshal(d, &doc)
DecodeDocument ==
    /\ last.n = 0
    /\ UNCHANGED <<result, planted, calls>>
    /\ \E d \in Documents :
        LET returned(r) ==
                /\ node' = [node EXCEPT !.v = r.v]
                /\ wire' = JNull
                /\ src' = d
                /\ last' = Called("Unmarshal", r.err, TRUE, 1)
        IN returned(decodeNew(TCustom("OpenAPI"), d))

\* var again OpenAPI; err := json.Unmarshal(data, &again), with data the
\* encoding of a document that was decoded without error
Redecode ==
    /\ last.n \in 1..(MaxSteps - 1)
    /\ last.op \in {"Unmarshal", "Redecode"}
    /\ ~last.err
    /\ last.marshalled
    /\ UNCHANGED <<result, planted, calls>>
    /\ LET returned(r) ==
               /\ node' = [node EXCEPT !.v = r.v]
               /\ wire' = JNull
               /\ src' = wire
               /\ last' = Called("Redecode", r.err, TRUE, last.n + 1)
       IN returned(decodeNew(TCustom("OpenAPI"), wire))

NextRoundTrip == DecodeDocument \/ Marshal \/ Redecode

SpecRoundTrip == InitRoundTrip /\ [][NextRoundTrip]_vars

(***************************************************************************)
(* Validate on a decoded document whose one schema, components.schemas[n], *)
(* carries a required list and a properties object, each present or not.   *)
(***************************************************************************)
PropertyNames == {"a", "b", "c"}

\* The texts of required: the lists of up to two names.
RequiredTexts ==
    {JArr(<<>>)}
        \cup {JArr(<< JStr(x) >>) : x \in PropertyNames}
        \cup {JArr(<< JStr(x), JStr(y) >>) : x \in PropertyNames, y \in PropertyNames}

\* The texts of properties: an object with a schema under each of its keys.
PropertiesTexts ==
    {JObj([key \in keys |-> JObj("type" :> JStr("string"), "src")], "src") :
        keys \in SUBSET PropertyNames}

RequiredDocuments ==
    {DocumentAround("Schema", ObjectOf("type" :> JStr("object") @@ "required" :> r
                                           @@ "properties" :> p)) :
        r \in {Absent} \cup RequiredTexts, p \in {Absent} \cup PropertiesTexts}

\* var doc OpenAPI; err := json.Unmarshal(d, &doc)
DecodeRequiredDocument ==
    /\ last.n = 0
    /\ UNCHANGED <<result, planted, calls>>
    /\ \E d \in RequiredDocuments :
        LET returned(r) ==
                /\ node' = [node EXCEPT !.v = r.v]
                /\ wire' = JNull
                /\ src' = d
                /\ last' = Called("Unmarshal", r.err, TRUE, 1)
        IN returned(decodeNew(TCustom("OpenAPI"), d))

NextRequired == DecodeRequiredDocument \/ CallValidate

SpecRequired == InitRoundTrip /\ [][NextRequired]_vars

(***************************************************************************)
(* Validate on a decoded document whose one schema, components.schemas[n], *)
(* carries a type: one name, or an array of up to two names.               *)
(***************************************************************************)
TypeSpellings == {"string", "number", "null", "array", "bogus", "String", ""}

TypeTexts ==
    {JStr(x) : x \in TypeSpellings}
        \cup {JArr(<<>>)}
        \cup {JArr(<< JStr(x) >>) : x \in TypeSpellings}
        \cup {JArr(<< JStr(x), JStr(y) >>) : x \in TypeSpellings, y \in TypeSpellings}

TypedDocuments == {DocumentAround("Schema", JObj("type" :> t, "src")) : t \in TypeTexts}

\* var doc OpenAPI; err := json.Unmarshal(d, &doc)
DecodeTypedDocument ==
    /\ last.n = 0
    /\ UNCHANGED <<result, planted, calls>>
    /\ \E d \in TypedDocuments :
        LET returned(r) ==
                /\ node' = [node EXCEPT !.v = r.v]
                /\ wire' = JNull
                /\ src' = d
                /\ last' = Called("Unmarshal", r.err, TRUE, 1)
        IN returned(decodeNew(TCustom("OpenAPI"), d))

NextTyped == DecodeTypedDocument \/ CallValidate

SpecTyped == InitRoundTrip /\ [][NextTyped]_vars

(***************************************************************************)
(* Validate on a decoded document that carries paths, webhooks and         *)
(* components, each absent, empty, or with members.                        *)
(***************************************************************************)
PathsTexts ==
    {Absent, JObj(EmptyMap, "src"), JObj("x-foo" :> JNum("1.0"), "src"),
     JObj("/pets" :> JObj(EmptyMap, "src"), "src"),
     JObj("/pets" :> JObj("summary" :> JStr("s"), "src"), "src")}
WebhooksTexts ==
    {Absent, JObj(EmptyMap, "src"), JObj("w" :> JNull, "src"),
     JObj("w" :> JObj(EmptyMap, "src"), "src")}
ComponentsTexts ==
    {Absent, JObj(EmptyMap, "src"), JObj("schemas" :> JObj(EmptyMap, "src"), "src"),
     JObj("schemas" :> JObj("n" :> JBool(TRUE), "src"), "src")}

SectionedDocuments ==
    {DocumentWith(ObjectOf("paths" :> p @@ "webhooks" :> w @@ "components" :> c).o) :
        p \in PathsTexts, w \in WebhooksTexts, c \in ComponentsTexts}

\* var doc OpenAPI; err := json.Unmarshal(d, &doc)
DecodeSectionedDocument ==
    /\ last.n = 0
    /\ UNCHANGED <<result, planted, calls>>
    /\ \E d \in SectionedDocuments :
        LET returned(r) ==
                /\ node' = [node EXCEPT !.v = r.v]
                /\ wire' = JNull
                /\ src' = d
                /\ last' = Called("Unmarshal", r.err, TRUE, 1)
        IN returned(decodeNew(TCustom("OpenAPI"), d))

NextSectioned == DecodeSectionedDocument \/ CallValidate

SpecSectioned == InitRoundTrip /\ [][NextSectioned]_vars

(***************************************************************************)
(* Validate on a document whose owner has set pointers to nil, in lists,   *)
(* in maps and in fields, and has written a pattern that does not compile; *)
(* and Validate on a nil *OpenAPI.                                         *)
(***************************************************************************)
MaxNils == 2

\* The places written, a child before the node that holds it.
NilSites ==
    << "subSchema", "subSchemaInList", "subSchemaInMap", "schemaType", "pattern",
       "schema", "parameterSchema", "mediaType", "header", "response", "responses",
       "operation", "parameter", "pathItem", "webhook", "server", "tag",
       "info", "paths", "components" >>

SetNil(doc, site) ==
    CASE site = "subSchema" -> [doc EXCEPT !.Components[1].Schemas["S"][1].Items = <<>>]
      [] site = "subSchemaInList" ->
             [doc EXCEPT !.Components[1].Schemas["S"][1].AllOf = << <<>> >>]
      [] site = "subSchemaInMap" ->
             [doc EXCEPT !.Components[1].Schemas["S"][1].Properties = "k" :> <<>>]
      [] site = "schemaType" -> [doc EXCEPT !.Components[1].Schemas["U"][1].Type = <<>>]
      [] site = "pattern" -> [doc EXCEPT !.Components[1].Schemas["T"][1].Pattern = "("]
      [] site = "schema" -> [doc EXCEPT !.Components[1].Schemas["U"] = <<>>]
      [] site = "parameterSchema" ->
             [doc EXCEPT !.Paths[1].Paths["/pets"][1].Parameters[1][1].Schema = <<>>]
      [] site = "mediaType" ->
             [doc EXCEPT !.Paths[1].Paths["/pets"][1].Get[1].Responses[1]
                              .StatusCode["200"][1].Content["c"] = <<>>]
      [] site = "header" ->
             [doc EXCEPT !.Paths[1].Paths["/pets"][1].Get[1].Responses[1]
                              .StatusCode["200"][1].Headers["h"] = <<>>]
      [] site = "response" ->
             [doc EXCEPT !.Paths[1].Paths["/pets"][1].Get[1].Responses[1].StatusCode["200"] = <<>>]
      [] site = "responses" -> [doc EXCEPT !.Paths[1].Paths["/pets"][1].Get[1].Responses = <<>>]
      [] site = "operation" -> [doc EXCEPT !.Paths[1].Paths["/pets"][1].Get = <<>>]
      [] site = "parameter" -> [doc EXCEPT !.Paths[1].Paths["/pets"][1].Parameters[2] = <<>>]
      [] site = "pathItem" -> [doc EXCEPT !.Paths[1].Paths["/pets"] = <<>>]
      [] site = "webhook" -> [doc EXCEPT !.Webhooks = "w" :> <<>>]
      [] site = "server" -> [doc EXCEPT !.Servers[1] = <<>>]
      [] site = "tag" -> [doc EXCEPT !.Tags[1] = <<>>]
      [] site = "info" -> [doc EXCEPT !.Info = <<>>]
      [] site = "paths" -> [doc EXCEPT !.Paths = <<>>]
      [] site = "components" -> [doc EXCEPT !.Components = <<>>]

\* The base document with the sites of a set written, children first.
RECURSIVE WithNils(_, _, _)
WithNils(doc, sites, i) ==
    IF i > Len(NilSites) THEN doc
    ELSE WithNils(IF NilSites[i] \in sites THEN SetNil(doc, NilSites[i]) ELSE doc, sites, i + 1)

\* The owner writes nil (or the pattern) at one more place.
WriteNil ==
    /\ last.op \notin {"Validate", "ValidateNil"}
    /\ Cardinality(planted) < MaxNils
    /\ \E i \in DOMAIN NilSites :
        /\ NilSites[i] \notin planted
        /\ planted' = planted \cup {NilSites[i]}
        /\ UNCHANGED calls
        /\ node' = [node EXCEPT !.v = WithNils(BaseDocument, planted \cup {NilSites[i]}, 1)]
    /\ last' = Called("Set", FALSE, FALSE, 1)
    /\ UNCHANGED <<wire, src, result>>

\* var doc *OpenAPI; result := doc.Validate()
CallValidateNil ==
    /\ last.op \notin {"Validate", "ValidateNil"}
    /\ \E ord \in Orders(RangedKeys) : result' = Validate(<<>>, ord)
    /\ last' = Called("ValidateNil", FALSE, FALSE, last.n + 1)
    /\ UNCHANGED <<node, wire, src, planted, calls>>

NextNil == WriteNil \/ CallValidate \/ CallValidateNil

SpecNil == InitValidate /\ [][NextNil]_vars

(***************************************************************************)
(* A node decoded from an object that carries, next to a keyword and an    *)
(* extension, a key that is neither; then encoded.                         *)
(***************************************************************************)
UnknownKinds ==
    {"Parameter", "Response", "Schema", "Info", "Tag", "Operation", "PathItem",
     "Paths", "Responses", "Components"}

\* One keyword of each kind, with a value of its type.
KnownKey(kind) ==
    CASE kind = "Parameter" -> "name"
      [] kind = "Response" -> "content"
      [] kind = "Schema" -> "type"
      [] kind = "Info" -> "title"
      [] kind = "Tag" -> "name"
      [] kind = "Operation" -> "operationId"
      [] kind = "PathItem" -> "summary"
      [] kind = "Paths" -> "/pets"
      [] kind = "Responses" -> "200"
      [] kind = "Components" -> "schemas"
KnownValue(kind) ==
    CASE kind \in {"Response", "Paths", "Components"} -> JObj(EmptyMap, "src")
      [] kind = "Responses" -> JObj("description" :> JStr("ok"), "src")
      [] kind = "Schema" -> JStr("string")
      [] OTHER -> JStr("id")

\* The keys that are no keyword of any of these kinds and carry no x-
\* prefix, and the values they come with.
UnknownKeys == {"bogus", "Description"}
UnknownValues == {JStr("dropped"), JNum("1"), JObj(EmptyMap, "src"), JNull}

UnknownInputs(kind) ==
    {ObjectOf(KnownKey(kind) :> a @@ "x-foo" :> b @@ "bogus" :> c @@ "Description" :> d) :
        a \in {Absent, KnownValue(kind)}, b \in {Absent, JStr("bar")},
        c \in {Absent} \cup UnknownValues, d \in {Absent} \cup UnknownValues}

\* var x Kind; err := json.Unmarshal(j, &x)
UnmarshalUnknown ==
    /\ last.n = 0
    /\ UNCHANGED <<result, planted, calls>>
    /\ \E kind \in UnknownKinds : \E j \in UnknownInputs(kind) : \E ord \in KeyOrders(kind, j) :
        LET returned(r) ==
                /\ node' = [kind |-> kind, v |-> r.v]
                /\ wire' = JNull
                /\ src' = j
                /\ last' = Called("Unmarshal", r.err, TRUE, 1)
        IN returned(Unmarshal(kind, Zero(TCustom(kind)), j, ord))

NextUnknown == UnmarshalUnknown \/ Marshal

SpecUnknown == InitRef /\ [][NextUnknown]_vars

(***************************************************************************)
(* Several callers at once: each decodes a document of its own or not,     *)
(* then validates or encodes the shared document or its own, a part at a   *)
(* time, the parts of the callers interleaved.                             *)
(***************************************************************************)
Callers == {"a", "b"}

\* The document the callers share: violations in several of its parts.
SharedDocument ==
    Plant(Plant(Plant(Plant(BaseDocument, "title"), "bound"), "required"), "tag")

\* The text a caller decodes into a document of its own.
OwnText == DocumentWith("paths" :> JObj("/pets" :> JObj("get" :> JObj(EmptyMap, "src"), "src"), "src"))

Idle == [op |-> "idle", pc |-> 0, ord |-> <<>>, doc |-> <<>>, findings |-> <<>>, data |-> JNull]

\* The document a call reads: the caller's own when it has decoded one.
Target(call) == IF Len(call.doc) > 0 THEN call.doc[1] ELSE node.v

InitShared ==
    /\ node = [kind |-> "OpenAPI", v |-> SharedDocument]
    /\ wire = JNull
    /\ src = JNull
    /\ last = Called("New", FALSE, TRUE, 0)
    /\ result = <<>>
    /\ planted = {"title", "bound", "required", "tag"}
    /\ calls = [c \in Callers |-> Idle]

\* var own OpenAPI; json.Unmarshal(text, &own)
CallerDecodes ==
    /\ \E c \in Callers :
        /\ calls[c].op = "idle"
        /\ Len(calls[c].doc) = 0
        /\ calls' = [calls EXCEPT ![c].doc = << decodeNew(TCustom("OpenAPI"), OwnText).v >>]
    /\ UNCHANGED <<node, wire, src, last, result, planted>>

\* result := &ValidationResult{} at the head of doc.Validate()
CallerBeginsValidate ==
    /\ \E c \in Callers : \E ord \in Orders(RangedKeys) :
        /\ calls[c].op = "idle"
        /\ calls' = [calls EXCEPT ![c].op = "Validate", ![c].pc = 1, ![c].ord = ord]
    /\ UNCHANGED <<node, wire, src, last, result, planted>>

\* A Validate whose findings go to one list of the process: each part's
\* findings are appended to the list of every call in flight.
CallerValidatesPartShared ==
    /\ \E c \in Callers :
        /\ calls[c].op = "Validate"
        /\ LET found == validateSection(Target(calls[c]), calls[c].ord, calls[c].pc)
           IN calls' = [d \in Callers |->
                  IF d = c
                  THEN [calls[c] EXCEPT !.findings = @ \o found,
                                        !.pc = @ + 1,
                                        !.op = IF calls[c].pc = 6 THEN "Validated" ELSE @]
                  ELSE IF calls[d].op = "Validate"
                  THEN [calls[d] EXCEPT !.findings = @ \o found]
                  ELSE calls[d]]
    /\ UNCHANGED <<node, wire, src, last, result, planted>>

\* The next part of doc.Validate(): its findings are appended to the
\* result of the call; after the last part the call returns.
CallerValidatesPart ==
    /\ \E c \in Callers :
        /\ calls[c].op = "Validate"
        /\ calls' = [calls EXCEPT
               ![c].findings = @ \o validateSection(Target(calls[c]), calls[c].ord, calls[c].pc),
               ![c].pc = @ + 1,
               ![c].op = IF calls[c].pc = 6 THEN "Validated" ELSE @]
    /\ UNCHANGED <<node, wire, src, last, result, planted>>

\* data, _ := json.Marshal(doc): the call starts, and later returns.
CallerBeginsMarshal ==
    /\ \E c \in Callers :
        /\ calls[c].op = "idle"
        /\ calls' = [calls EXCEPT ![c].op = "Marshal"]
    /\ UNCHANGED <<node, wire, src, last, result, planted>>

CallerMarshals ==
    /\ \E c \in Callers :
        /\ calls[c].op = "Marshal"
        /\ calls' = [calls EXCEPT ![c].data = encode(TCustom("OpenAPI"), Target(calls[c])),
                                  ![c].op = "Marshalled"]
    /\ UNCHANGED <<node, wire, src, last, result, planted>>

NextShared ==
    \/ CallerDecodes
    \/ CallerBeginsValidate
    \/ CallerValidatesPart
    \/ CallerBeginsMarshal
    \/ CallerMarshals

SpecShared == InitShared /\ [][NextShared]_vars

(***************************************************************************)
(* Validate called twice on a document that is not written in between.     *)
(***************************************************************************)
\* again := doc.Validate(), after result := doc.Validate()
CallValidateAgain ==
    /\ last.op = "Validate"
    /\ last.n = Cardinality(planted) + 1
    /\ \E ord \in Orders(RangedKeys) : result' = Validate(<<node.v>>, ord)
    /\ last' = Called("Validate", FALSE, FALSE, last.n + 1)
    /\ UNCHANGED <<node, wire, src, planted, calls>>

NextTwice == PlantViolation \/ CallValidate \/ CallValidateAgain

SpecTwice == InitValidate /\ [][NextTwice]_vars

(***************************************************************************)
(* The unified facade over a Swagger 2.0 schema (package unified): the     *)
(* wrapper schema20 holds a pointer to the openapi20 Schema; a caller      *)
(* obtains wrappers from a response or a parameter and from GetItems, and  *)
(* asks for the discriminator.                                             *)
(***************************************************************************)
\* The openapi20 schemas of the bounded inputs: Discriminator is a string
\* (the property name) in Swagger 2.0.
DiscriminatorNames == {"", "petType", "kind"}
LeafSchemas20 ==
    [Type : {"", "object", "string"}, Discriminator : DiscriminatorNames,
     ReadOnly : BOOLEAN, Items : {<<>>}]
Schemas20 ==
    LeafSchemas20
        \cup [Type : {"array"}, Discriminator : DiscriminatorNames, ReadOnly : {FALSE},
              Items : {<<leaf>> : leaf \in LeafSchemas20}]

\* What a call returns: a value, or a panic of the runtime.
Returned(value) == [panic |-> FALSE, value |-> value]
Panicked == [panic |-> TRUE, value |-> <<>>]

BaseDiscriminator(propertyName) == [PropertyName |-> propertyName, Mapping |-> <<>>]
BaseDiscriminator_GetPropertyName(d) == d.PropertyName

\* schema20.GetDiscriminator: the interface value returned (<<>> is nil).
\* The test of s.schema guards the branch that reads s.schema.Discriminator.
schema20_GetDiscriminator(s) ==
    IF Len(s.schema) = 0
    THEN Panicked
    ELSE Returned(<<>>)

InitFacade ==
    /\ node = [kind |-> "schema20", v |-> [schema |-> << CHOOSE s \in LeafSchemas20 : TRUE >>]]
    /\ wire = JNull
    /\ src = JNull
    /\ last = Called("init", FALSE, TRUE, 0)
    /\ result = Returned(<<>>)
    /\ planted = {}
    /\ calls = <<>>

\* response20.GetSchema / mediaType20.GetSchema on a schema that is not nil
FacadeGetSchema ==
    /\ last.n = 0
    /\ \E schema \in Schemas20 : node' = [kind |-> "schema20", v |-> [schema |-> <<schema>>]]
    /\ last' = Called("GetSchema", FALSE, TRUE, 1)
    /\ UNCHANGED <<wire, src, result, planted, calls>>

\* schema20.GetItems on a schema that has items
FacadeGetItems ==
    /\ last.op = "GetSchema"
    /\ Len(node.v.schema[1].Items) > 0
    /\ node' = [node EXCEPT !.v.schema = node.v.schema[1].Items]
    /\ last' = Called("GetItems", FALSE, FALSE, last.n + 1)
    /\ UNCHANGED <<wire, src, result, planted, calls>>

\* d := s.GetDiscriminator()
FacadeGetDiscriminator ==
    /\ last.op \in {"GetSchema", "GetItems"}
    /\ result' = schema20_GetDiscriminator(node.v)
    /\ last' = Called("GetDiscriminator", FALSE, FALSE, last.n + 1)
    /\ UNCHANGED <<node, wire, src, planted, calls>>

NextFacade == FacadeGetSchema \/ FacadeGetItems \/ FacadeGetDiscriminator

SpecFacade == InitFacade /\ [][NextFacade]_vars

(***************************************************************************)
(* Properties of the referenceable nodes, stated over SpecRef.             *)
(***************************************************************************)
\* The fields of the reference shape, and the fields a kind has beside them.
RefSubset == {"isReference", "Ref", "Summary", "Description", "Extensions"}
InlineFields(kind) == FieldNames(StructFields(kind)) \ RefSubset
InlineFieldsEmpty(n) ==
    \A nm \in InlineFields(n.kind) : isEmptyValue(FieldNamed(StructFields(n.kind), nm).T, n.v[nm])

\* The last call decoded an object into the node without error.
Decoded == last.op = "Unmarshal" /\ ~last.err /\ src.t = "object"
\* ... and that object carried a non-empty $ref string.
DecodedRef ==
    /\ Decoded
    /\ "$ref" \in DOMAIN src.o
    /\ src.o["$ref"].t = "string"
    /\ src.o["$ref"].s # ""

\* Equality of two JSON values as values: numbers by what they denote.
SameValue(a, b) ==
    IF a.t = "number" /\ b.t = "number"
    THEN ParseFloatOk(a.n) /\ ParseFloatOk(b.n) /\ ParseFloat(a.n) = ParseFloat(b.n)
    ELSE a = b

\* The x- fields of the object decoded last.
SrcExtensions == {key \in DOMAIN src.o : HasPrefixX(key)}

\* C4: a node decoded from an object that contains $ref is marked as a
\* reference and every inline field of it is empty, whatever inline
\* keywords the object carried next to $ref.
C4_RefDecodeLeavesInlineEmpty ==
    DecodedRef /\ last.fresh => IsReference(node.v) /\ InlineFieldsEmpty(node)

\* C5: IsReference() is true if and only if the $ref pointer string is
\* non-empty, for every instance: decoded, made by New<Kind>Reference, or
\* written through its exported Ref field.
C5_IsReferenceIffRefNonEmpty == IsReference(node.v) <=> node.v.Ref # ""

\* C6: every x- field of a decoded object is in the encoding of the node,
\* with an equal value.
C6_ExtensionsPreserved ==
    Decoded /\ last.marshalled =>
        \A key \in SrcExtensions :
            /\ wire.t = "object"
            /\ key \in DOMAIN wire.o
            /\ SameValue(wire.o[key], src.o[key])

\* C7: the x- fields that accompany $ref are captured in the extension map
\* of the node, and are emitted again with equal values when it is encoded.
C7_RefExtensionsPreserved ==
    DecodedRef =>
        \A key \in {k \in SrcExtensions : decodeAnyOk(src.o[k])} :
            /\ key \in DOMAIN node.v.Extensions
            /\ node.v.Extensions[key] = decodeAny(src.o[key])
            /\ last.marshalled =>
                   /\ wire.t = "object"
                   /\ key \in DOMAIN wire.o
                   /\ SameValue(wire.o[key], src.o[key])

\* C8: the encoding of a reference-shaped node is exactly $ref, summary
\* when set, description when set, and the extension entries; summary and
\* description carry the node's values.
C8_RefEncodesRefSubset ==
    /\ last.marshalled
    /\ IsReference(node.v)
    /\ node.v.Ref # ""
    /\ \A key \in DOMAIN node.v.Extensions : HasPrefixX(key)
    => /\ wire.t = "object"
       /\ DOMAIN wire.o = {"$ref"}
                            \cup (IF node.v.Summary # "" THEN {"summary"} ELSE {})
                            \cup (IF node.v.Description # "" THEN {"description"} ELSE {})
                            \cup DOMAIN node.v.Extensions
       /\ wire.o["$ref"] = JStr(node.v.Ref)
       /\ node.v.Summary # "" => wire.o["summary"] = JStr(node.v.Summary)
       /\ node.v.Description # "" => wire.o["description"] = JStr(node.v.Description)

\* The encoding of the node with its extension map emptied: its recognized
\* fields alone.
RecognizedOnly == encode(TCustom(node.kind), [node.v EXCEPT !.Extensions = EmptyMap])

\* C9: in the encoding, every recognized field carries the value of the
\* node's typed field and every extension entry appears under its own
\* name, whatever the extension map holds.
C9_NoShadowing ==
    last.marshalled =>
        /\ \A key \in DOMAIN RecognizedOnly.o : wire.o[key] = RecognizedOnly.o[key]
        /\ \A key \in DOMAIN node.v.Extensions :
               wire.o[key] = encodeAny(node.v.Extensions[key])

(***************************************************************************)
(* Properties of Schema, stated over SpecSchema.                           *)
(***************************************************************************)
\* The fields of the object shape (the extension map among them).
ObjectKeywords == FieldNames(schemaAlias) \ {"boolValue"}
NoObjectKeyword(s) ==
    \A nm \in ObjectKeywords : isEmptyValue(FieldNamed(schemaAlias, nm).T, s[nm])

\* C10: exactly one shape is active: a Schema for which IsBooleanSchema()
\* is true has no object-shape keyword and no extension set (so one with a
\* keyword set is no boolean schema), in every state constructors and
\* decode calls reach, decoding into an instance that holds data included.
C10_OneShapeActive == IsBooleanSchema(node.v) => NoObjectKeyword(node.v)

\* The last call decoded the bare boolean text true or false.
DecodedBoolean == last.op = "Unmarshal" /\ src.t = "bool"

\* C11: decoding the text true (false) as a schema gives, without error, a
\* boolean-shaped node whose boolean value is true (false); the encoding
\* of a boolean-shaped node is the bare text true or false, never an
\* object; so decoding a bare boolean and encoding the node gives the
\* input text back.
C11_BooleanDuality ==
    /\ DecodedBoolean =>
           /\ ~last.err
           /\ IsBooleanSchema(node.v)
           /\ BooleanValue(node.v) = << src.b >>
    /\ (last.marshalled /\ IsBooleanSchema(node.v)) =>
           wire = JBool(BooleanValue(node.v)[1])
    /\ (DecodedBoolean /\ last.marshalled) => wire = src

C11_Witness ==
    /\ DecodedBoolean /\ last.marshalled
    /\ src = JBool(FALSE) /\ wire = JBool(FALSE)
    /\ BooleanValue(node.v) = << FALSE >>

(***************************************************************************)
(* Properties of StringOrStringArray, stated over SpecType.                *)
(***************************************************************************)
\* The type names a value denotes: the names its encoding carries.
Denoted(j) ==
    IF j.t = "array" THEN {j.a[i].s : i \in DOMAIN j.a}
    ELSE IF j.t = "string" THEN {j.s}
    ELSE {}

\* C12: Contains(q) answers true exactly when q is one of the type names
\* the value denotes (the names it encodes to), so the string T and the
\* array [T] answer every query alike.
C12_ContainsAgreesWithEncoding ==
    last.op = "Contains" =>
        (result.answer <=> result.typ \in Denoted(StringOrStringArray_MarshalJSON(node.v)))

(***************************************************************************)
(* Properties of Parameter.validate, stated over SpecParameter.            *)
(***************************************************************************)
\* The findings of the last Validate at a path / with a path and message.
FindingsAt(path) == {i \in DOMAIN result : result[i].Path = path}
Findings(path, message) ==
    {i \in DOMAIN result : result[i] = [Path |-> path, Message |-> message]}

StylePath == "paths[/pets].parameters[0].style"
StyleMessage(in, style) ==
    "invalid style '" \o style \o "' for parameter in '" \o in \o "'"

\* The combinations of location and style the specification allows.
AllowedStyle(in, style) ==
    \/ in = "path" /\ style \in {"matrix", "label", "simple"}
    \/ in = "query" /\ style \in {"form", "spaceDelimited", "pipeDelimited", "deepObject"}
    \/ in = "header" /\ style = "simple"
    \/ in = "cookie" /\ style = "form"

\* One invalid-style finding for a combination that is not allowed, none
\* for one that is.
StyleJudged ==
    IF AllowedStyle(TheParameter.In, TheParameter.Style)
    THEN FindingsAt(StylePath) = {}
    ELSE /\ Cardinality(FindingsAt(StylePath)) = 1
         /\ Findings(StylePath, StyleMessage(TheParameter.In, TheParameter.Style)) # {}

\* C13 as stated: for a non-reference parameter with a non-empty style,
\* Validate reports an invalid-style finding for every combination of
\* location and style outside the allowed ones, and none for the allowed.
C13_StyleJudgedForEveryIn ==
    (last.op = "Validate" /\ TheParameter.Style # "") => StyleJudged

\* C13, amended: the same for a parameter whose location is one of query,
\* header, path and cookie; in=path with style=form is the only finding
\* of an otherwise valid document, in=path with style=simple gives none.
C13_StyleJudgedForKnownIn ==
    (last.op = "Validate" /\ TheParameter.Style # ""
         /\ TheParameter.In \in {"query", "header", "path", "cookie"}) =>
        /\ StyleJudged
        /\ TheParameter.In = "path" =>
               Len(result) = (IF TheParameter.Style \in {"matrix", "label", "simple"} THEN 0 ELSE 1)

C13_Witness ==
    /\ last.op = "Validate"
    /\ TheParameter.In = "path" /\ TheParameter.Style = "form"
    /\ result = << [Path |-> StylePath, Message |-> StyleMessage("path", "form")] >>

(***************************************************************************)
(* Properties of Schema.validate, stated over SpecBounds.                  *)
(***************************************************************************)
SchemaPath == "components.schemas[T]"

\* The paired bounds of the specification: the relation that must hold is
\* min <= max, and min < max for the exclusive pair.
BoundPairs ==
    {[min |-> "Minimum", max |-> "Maximum", exclusive |-> FALSE,
      message |-> "minimum cannot be greater than maximum"],
     [min |-> "ExclusiveMinimum", max |-> "ExclusiveMaximum", exclusive |-> TRUE,
      message |-> "exclusiveMinimum must be less than exclusiveMaximum"],
     [min |-> "MinLength", max |-> "MaxLength", exclusive |-> FALSE,
      message |-> "minLength cannot be greater than maxLength"],
     [min |-> "MinItems", max |-> "MaxItems", exclusive |-> FALSE,
      message |-> "minItems cannot be greater than maxItems"],
     [min |-> "MinProperties", max |-> "MaxProperties", exclusive |-> FALSE,
      message |-> "minProperties cannot be greater than maxProperties"],
     [min |-> "MinContains", max |-> "MaxContains", exclusive |-> FALSE,
      message |-> "minContains cannot be greater than maxContains"]}

\* Both members of the pair are present and the relation does not hold.
PairBroken(s, pair) ==
    /\ s[pair.min] # <<>>
    /\ s[pair.max] # <<>>
    /\ IF pair.exclusive THEN ~(s[pair.min][1] < s[pair.max][1])
       ELSE ~(s[pair.min][1] <= s[pair.max][1])

SchemaText == src.o["components"].o["schemas"].o["n"]

RequiredPath == "components.schemas[n].required"
RequiredMessage(name) == "required property '" \o name \o "' not defined in properties"

\* How many times the required list of the text names a property.
Listed(name) ==
    Cardinality({i \in DOMAIN SchemaText.o["required"].a :
                    SchemaText.o["required"].a[i].s = name})

\* C15: for a schema in which both required and properties are present,
\* Validate reports one finding, naming the property, for each name listed
\* in required that is no key of properties, and none for a name that is a
\* key of properties.
C15_RequiredInProperties ==
    (last.op = "Validate" /\ src.t = "object"
         /\ {"required", "properties"} \subseteq DOMAIN SchemaText.o) =>
        \A name \in PropertyNames :
            Cardinality(Findings(RequiredPath, RequiredMessage(name)))
                = (IF name \in DOMAIN SchemaText.o["properties"].o THEN 0 ELSE Listed(name))

(***************************************************************************)
(* Properties of Schema.validate, stated over SpecTyped.                   *)
(***************************************************************************)
TypePath == "components.schemas[n].type"
TypeMessage(name) == "invalid type '" \o name \o "'"

\* The type names of the specification.
TypeEnumeration == {"string", "number", "integer", "boolean", "array", "object", "null"}

\* The type names the text of the schema gives: the single name, or the
\* elements of the array, as a sequence.
TypesOfText ==
    IF SchemaText.o["type"].t = "string" THEN << SchemaText.o["type"].s >>
    ELSE [i \in DOMAIN SchemaText.o["type"].a |-> SchemaText.o["type"].a[i].s]

\* C16: for a schema with a type, Validate reports one finding for each
\* type name in type (the single name, or every element of the array)
\* that is none of string, number, integer, boolean, array, object, null,
\* and no type finding for a name of that set.
C16_TypeNamesJudged ==
    (last.op = "Validate" /\ src.t = "object") =>
        /\ \A name \in TypeSpellings :
               Cardinality(Findings(TypePath, TypeMessage(name)))
                   = (IF name \in TypeEnumeration THEN 0
                      ELSE Cardinality({i \in DOMAIN TypesOfText : TypesOfText[i] = name}))
        /\ Cardinality(FindingsAt(TypePath))
               = Cardinality({i \in DOMAIN TypesOfText : TypesOfText[i] \notin TypeEnumeration})

(***************************************************************************)
(* Properties of Validate on siblings, stated over SpecSiblings.           *)
(***************************************************************************)
\* The paths of the findings Validate can have about the parameter at
\* index i (counted from 1 here, from 0 in the paths).
SiblingPath(i) == "paths[/pets].get.parameters[" \o ToString(i - 1) \o "]"
SiblingPaths(i) ==
    {SiblingPath(i) \o suffix : suffix \in {"", ".name", ".in", ".required", ".style"}}
FindingsUnder(paths) == {k \in DOMAIN result : result[k].Path \in paths}

\* The structural findings an inline parameter of this document is due:
\* a missing name, a missing location, a style its location does not
\* allow, neither schema nor content.
InlineDue(p) ==
    (IF p.Name = "" THEN 1 ELSE 0) + (IF p.In = "" THEN 1 ELSE 0)
        + (IF p.In = "path" /\ p.Style = "form" THEN 1 ELSE 0)
        + (IF p.Schema = <<>> /\ DOMAIN p.Content = {} THEN 1 ELSE 0)

\* C18: a reference-shaped node (one whose $ref is non-empty) has no
\* finding, and each of its siblings has exactly the findings it is due
\* on its own, whatever the other nodes of the list or map are.
C18_ReferenceSkipsOnlyItself ==
    last.op = "Validate" =>
        /\ \A i \in DOMAIN SiblingParameters :
               Cardinality(FindingsUnder(SiblingPaths(i)))
                   = (IF SiblingParameters[i][1].Ref # "" THEN 0
                      ELSE InlineDue(SiblingParameters[i][1]))
        /\ \A key \in DOMAIN SiblingSchemas :
               Cardinality(FindingsAt("components.schemas[" \o key \o "]"))
                   = (IF SiblingSchemas[key][1].Ref # "" THEN 0
                      ELSE IF SiblingSchemas[key][1].Minimum = <<10>> THEN 1 ELSE 0)

(***************************************************************************)
(* Properties of Components.validate, stated over SpecRegistries.          *)
(***************************************************************************)
\* The keys that match ^[a-zA-Z0-9._-]+$.
WellNamed == {"n", "a.b-c_1", "T"}
NameMessage == "component name contains invalid characters"
RegistryPath(reg, key) ==
    "components." \o FieldNamed(componentsAlias, reg).key \o "[" \o key \o "]"

\* C19: for each of the ten registries of components, Validate reports a
\* finding for each key that does not match the name pattern, and none
\* for a key that matches.
C19_RegistryKeysJudged ==
    last.op = "Validate" =>
        \A reg \in Registries : \A key \in RegistryKeys :
            Cardinality(Findings(RegistryPath(reg, key), NameMessage))
                = (IF key \in DOMAIN TheComponents[reg] /\ key \notin WellNamed
                   THEN 1 ELSE 0)

(***************************************************************************)
(* Properties of Validate, stated over SpecValidate.                       *)
(***************************************************************************)
Validated == last.op = "Validate"

\* C2: Validate never stops at the first violation: for a document with k
\* violations written into k unrelated nodes, the returned list holds
\* exactly k findings, one per violation.
C2_ExactlyOneFindingPerViolation ==
    Validated => Len(result) = Cardinality(planted)

\* The path of the sub-schema held under an applicator of
\* components.schemas[S].
ApplicatorPath(field) ==
    "components.schemas[S]." \o FieldNamed(schemaAlias, field).key
        \o (IF field \in SliceApplicators THEN "[0]"
            ELSE IF field \in MapApplicators THEN "[k]" ELSE "")

\* C3: for each of the seventeen applicators, a violation in a sub-schema
\* held under it produces a finding in the result of Validate.
C3_EveryApplicatorVisited ==
    Validated =>
        \A field \in planted \cap Applicators :
            \E i \in DOMAIN result : result[i].Path = ApplicatorPath(field)

\* The sites whose violation is a schema with minimum > maximum, and the
\* applicators Schema.validate passes over.
BadSchemaSites ==
    Applicators \cup {"bound", "headerSchema", "parameterContent", "responseContent"}
PassedOver == {"DependentSchemas", "PatternProperties", "PropertyNames"}
BoundMessage == "minimum cannot be greater than maximum"

\* C17: a violation inside the schema of a non-reference header, or
\* inside the schema of a content media type of a non-reference
\* parameter, produces a finding: with no violation under an applicator
\* that is passed over, every schema with minimum > maximum in the
\* document has its finding.
C17_NestedSchemasVisited ==
    (Validated /\ planted \cap PassedOver = {}) =>
        Cardinality({i \in DOMAIN result : result[i].Message = BoundMessage})
            >= Cardinality(planted \cap BadSchemaSites)

(***************************************************************************)
(* Properties of the round trip, stated over SpecRoundTrip.                *)
(***************************************************************************)
\* C1: for every text d that decodes into a document without error,
\* encode(decode(encode(decode(d)))) is equal to encode(decode(d)), byte
\* for byte: the encoding of a document decodes without error, and the
\* value it decodes into encodes to the same text.
C1_RoundTripStable ==
    last.op = "Redecode" => ~last.err /\ (last.marshalled => wire = src)

\* An encoding was decoded and encoded again, and it carries an extension
\* next to recognized fields.
C1_Witness ==
    /\ last.op = "Redecode"
    /\ last.marshalled
    /\ wire = src
    /\ "components" \in DOMAIN wire.o
    /\ \E reg \in DOMAIN wire.o["components"].o :
           LET n == wire.o["components"].o[reg].o["n"]
           IN n.t = "object" /\ {"$ref", "x-foo"} \subseteq DOMAIN n.o

\* The part of the document a finding is about, by its path: 1 the document
\* root, 2 the info block, 3 the path/operation tree, 4 components, 5 tags,
\* servers and security.
RootPaths == {"", "openapi"}
InfoPaths == {"info", "info.title", "info.version"}
PathTreePaths ==
    {"paths[/pets].parameters[0].style",
     "paths[/pets].get.responses.200.content[c].schema"}
TailPaths == {"servers[0].url", "tags[0].name"}
Section(path) ==
    CASE path \in RootPaths -> 1
      [] path \in InfoPaths -> 2
      [] path \in PathTreePaths -> 3
      [] path \in TailPaths -> 5
      [] OTHER -> 4

\* C20: in the list Validate returns, the findings about the document root
\* come first, then those under info, then those under the path/operation
\* tree, then those under components, and last those under tags, servers
\* and security.
C20_TraversalOrder ==
    Validated =>
        \A i, j \in DOMAIN result :
            i < j => Section(result[i].Path) <= Section(result[j].Path)

(***************************************************************************)
(* Properties of OpenAPI.Validate, stated over SpecSectioned.              *)
(***************************************************************************)
OneOfThreeMessage == "must have at least one of: paths, webhooks, or components"

\* C21: Validate reports "must have at least one of: paths, webhooks, or
\* components" exactly when the document has none of the three, and once.
C21_OneOfThreeRequired ==
    (Validated /\ src.t = "object") =>
        Cardinality(Findings("", OneOfThreeMessage))
            = (IF DOMAIN src.o \cap {"paths", "webhooks", "components"} = {} THEN 1 ELSE 0)

(***************************************************************************)
(* Frame of Validate, stated over SpecSiblings.                            *)
(***************************************************************************)
\* C22: Validate does not write to its input: across the call every field
\* of every node of the document keeps its value, and nothing but the list
\* of findings of the result is written.
C22_ValidateWritesOnlyFindings ==
    [][last'.op = "Validate" => (node' = node /\ wire' = wire /\ src' = src
                                    /\ planted' = planted)]_vars

\* Validate has returned findings for a document its owner had edited.
C22_Witness ==
    /\ Validated
    /\ Len(result) >= 2
    /\ node.v # SiblingsDocument
    /\ \E i \in DOMAIN SiblingParameters : SiblingParameters[i][1].Ref # ""

(***************************************************************************)
(* Validate on nil pointers and malformed values, stated over SpecNil.     *)
(***************************************************************************)
NilDocumentFinding == [Path |-> "", Message |-> "OpenAPI document is nil"]

\* The findings a written place is due: nothing for a nil child in a list
\* or a map, a finding for a required block that is missing and for a
\* pattern that does not compile.
FindingDue(site) ==
    CASE site = "info" -> {[Path |-> "info", Message |-> "required field is missing"]}
      [] site = "responses" ->
             {[Path |-> "paths[/pets].get.responses", Message |-> "required field is missing"]}
      [] site = "parameterSchema" ->
             {[Path |-> "paths[/pets].parameters[0]",
               Message |-> "must have either 'schema' or 'content'"]}
      [] site = "pattern" ->
             {[Path |-> "components.schemas[T].pattern",
               Message |-> "invalid regex pattern: error parsing regexp: missing closing )"]}
      [] OTHER -> {}

\* The places that remove the node another place is in.
Covers(site) ==
    CASE site = "paths" -> {"pathItem", "parameter", "operation", "responses", "response",
                            "header", "mediaType", "parameterSchema"}
      [] site = "pathItem" -> {"parameter", "operation", "responses", "response",
                               "header", "mediaType", "parameterSchema"}
      [] site = "operation" -> {"responses", "response", "header", "mediaType"}
      [] site = "responses" -> {"response", "header", "mediaType"}
      [] site = "response" -> {"header", "mediaType"}
      [] site = "components" -> {"subSchema", "subSchemaInList", "subSchemaInMap",
                                 "schemaType", "pattern", "schema"}
      [] site = "schema" -> {"schemaType"}
      [] OTHER -> {}
Uncovered == {site \in planted : \A other \in planted : site \notin Covers(other)}

\* C23: Validate returns a result for every document: a nil root is
\* reported as the one finding "OpenAPI document is nil", and a document
\* with nil children, missing blocks or a pattern that does not compile
\* gets a list of findings.
C23_ValidateAlwaysReturns ==
    /\ last.op = "ValidateNil" => result = << NilDocumentFinding >>
    /\ last.op = "Validate" =>
           /\ \A i \in DOMAIN result : DOMAIN result[i] = {"Path", "Message"}
           /\ \A i \in DOMAIN result : result[i] # NilDocumentFinding
           /\ \A site \in Uncovered : \A f \in FindingDue(site) :
                  \E i \in DOMAIN result : result[i] = f

C23_Witness ==
    /\ last.op = "Validate"
    /\ {"subSchemaInList", "pattern"} \subseteq planted
    /\ Len(result) = 1

C23_WitnessNil == last.op = "ValidateNil" /\ Len(result) = 1

(***************************************************************************)
(* Unrecognized fields, stated over SpecUnknown.                           *)
(***************************************************************************)
\* The text without the keys that are neither a keyword nor an extension.
Recognized(j) == JObj([key \in DOMAIN j.o \ UnknownKeys |-> j.o[key]], "src")
DecodedRecognized ==
    Unmarshal(node.kind, Zero(TCustom(node.kind)), Recognized(src),
              SomeOrder(DOMAIN Recognized(src).o))

\* C24: a field that is neither a keyword of the node nor prefixed with x-
\* is dropped: the decode returns no error, the node is the one the text
\* without the field decodes to, and the encoding of the node does not
\* carry the field.
C24_UnknownFieldsDropped ==
    (last.op = "Unmarshal" /\ DOMAIN src.o \cap UnknownKeys # {}) =>
        /\ ~last.err
        /\ node.v = DecodedRecognized.v
        /\ last.marshalled =>
               /\ DOMAIN wire.o \cap UnknownKeys = {}
               /\ wire = encode(TCustom(node.kind), DecodedRecognized.v)

(***************************************************************************)
(* Extension values that do not decode, stated over SpecRef.               *)
(***************************************************************************)
\* The text decoded last carries an extension whose value has no generic
\* value (a number out of the range of float64).
CarriesUndecodableExtension ==
    /\ src.t = "object"
    /\ \E key \in DOMAIN src.o : HasPrefixX(key) /\ ~decodeAnyOk(src.o[key])

\* C25: when the value of an extension field of a node does not decode as
\* a generic value, the decode of the node returns an error.
C25_UndecodableExtensionFails ==
    (last.op = "Unmarshal" /\ CarriesUndecodableExtension) => last.err

(***************************************************************************)
(* Failed decodes, stated over SpecRef.                                    *)
(***************************************************************************)
\* C26: a decode that returns an error leaves its destination as it was
\* before the call: the zero value for a fresh destination, the value at
\* hand for an instance in use.
C26_FailedDecodeLeavesDestination ==
    [][(last'.op = "Unmarshal" /\ last'.err) =>
           node'.v = (IF last'.fresh THEN Zero(TCustom(node'.kind)) ELSE node.v)]_vars

(***************************************************************************)
(* Calls that run at once, stated over SpecShared.                         *)
(***************************************************************************)
\* C27: whatever the interleaving of the Validate and Marshal calls of
\* several callers on the shared document, and of their calls on documents
\* of their own, each call returns what it returns when it runs alone, and
\* the shared document is not written.
C27_CallsAreIndependent ==
    /\ node.v = SharedDocument
    /\ \A c \in Callers :
        /\ Len(calls[c].doc) > 0 => calls[c].doc[1] = decodeNew(TCustom("OpenAPI"), OwnText).v
        /\ calls[c].op = "Validated" =>
               calls[c].findings = Validate(<< Target(calls[c]) >>, calls[c].ord)
        /\ calls[c].op = "Marshalled" =>
               calls[c].data = encode(TCustom("OpenAPI"), Target(calls[c]))

\* Two callers have validated the shared document, ranging over its maps
\* in different orders, and each has its own list of findings.
C27_Witness ==
    /\ \A c \in Callers : calls[c].op = "Validated" /\ Len(calls[c].doc) = 0
    /\ calls["a"].findings # calls["b"].findings
    /\ Len(calls["a"].findings) >= 4

(***************************************************************************)
(* Two calls of Validate, stated over SpecTwice.                           *)
(***************************************************************************)
\* C28: two Validate calls on the same unmodified document return the
\* same findings in the same order.
C28_ValidateIsDeterministic ==
    [][(last.op = "Validate" /\ last'.op = "Validate") => result' = result]_vars

(***************************************************************************)
(* Decoding into an instance in use, stated over SpecRef.                  *)
(***************************************************************************)
\* What the text decoded last gives in a fresh instance of the node's kind.
DecodedFresh ==
    Unmarshal(node.kind, Zero(TCustom(node.kind)), src, SomeOrder(DOMAIN RawOf(src)))

\* C29: a decode replaces its destination: after a text is decoded into
\* an instance that already holds data, the node is the one the text gives
\* in a fresh instance.
C29_DecodeReplaces ==
    (last.op = "Unmarshal" /\ ~last.err) => node.v = DecodedFresh.v

(***************************************************************************)
(* The discriminator of a Swagger 2.0 schema, stated over SpecFacade.      *)
(***************************************************************************)
\* C30: for a Swagger 2.0 schema whose discriminator is not empty,
\* GetDiscriminator returns a Discriminator whose GetPropertyName is that
\* name; for a schema whose discriminator is empty it returns nil.
C30_DiscriminatorOfSchema20 ==
    last.op = "GetDiscriminator" =>
        /\ ~result.panic
        /\ IF node.v.schema[1].Discriminator = "" THEN result.value = <<>>
           ELSE /\ Len(result.value) = 1
                /\ BaseDiscriminator_GetPropertyName(result.value[1])
                       = node.v.schema[1].Discriminator

====
